---- MODULE Spec2Model ----
(***************************************************************************)
(* Work-order timeline: the order store (WorkOrderStore / WorkOrderService) *)
(* and the pointer-driven interaction handlers of                          *)
(* WorkOrderTimelineComponent, with the create/edit panel, and the         *)
(* component's viewport: fit, center, zoom, pan and infinite scroll.       *)
(*                                                                         *)
(* Time is counted in hours since the model's epoch (hour 0 = 00:00 UTC of *)
(* day 0).  A stored ISO date "YYYY-MM-DD" is a day number; `new Date(iso)`*)
(* is 00:00 UTC of that day, while d3.timeDay and toIso work in the        *)
(* browser's local time zone.                                              *)
(***************************************************************************)
EXTENDS Integers, Sequences, FiniteSets, TLC

\* ---------------------------------------------------------------- bounds
MaxDay == 3
MaxOrders == 2
MaxDragSteps == 6
MaxViewDays == 45
MaxBackDays == 20
RectWidth == 10
MaxViewEvents == 2

\* ------------------------------------------------------ program constants
HoursPerDay == 24
DRAG_THRESHOLD == 5

Days == 0..MaxDay
DocIds == 1..MaxOrders
WorkCenterIds == {"wc-1", "wc-2"}
Statuses == {"open"}

\* Pointer x coordinates (px) used for click-vs-drag detection: the pointer
\* goes down at the origin and moves or is released at one of PointerXs.
PointerDownXs == {0}
PointerXs == {0, 4, 5}

\* Pointer displacement of a drag frame mapped to time,
\* (clientX - startMouseX) * totalSpanMs / rect.width, in hours.
DragDeltas == {h * 12 : h \in (0 - MaxDragSteps)..MaxDragSteps}

\* The browser's time zone: the UTC offset (hours) before and after the
\* instant `at` (a daylight-saving transition; fixed zones have before = after).
Zones ==
  { [name |-> "UTC",      before |-> 0,  after |-> 0,  at |-> 0],
    [name |-> "UTC+5",    before |-> 5,  after |-> 5,  at |-> 0],
    [name |-> "fallback", before |-> -4, after |-> -5, at |-> 30] }

\* An absent value (null / undefined) is the empty sequence, a present one <<v>>.
Null == <<>>
Some(v) == <<v>>

VARIABLES
  zone,                   \* the browser's time zone (environment)
  workOrders,             \* store.workOrders: sequence of order documents
  nextId,                 \* the next fresh docId (uuid)
  statusFilter,           \* store.statusFilter
  dragState,              \* component.dragState
  isPanning,              \* component.isPanning
  cursorDragging,         \* component.cursorDragging
  didDrag,                \* component.didDrag
  mouseDownPos,           \* component.mouseDownPos (x only)
  mouseDownWorkCenterId,  \* component.mouseDownWorkCenterId
  panel,                  \* the open WorkOrderPanelComponent, if any
  lastFrame,              \* observation of the last bar-drag frame or panel submit handled
  query,                  \* observation of the store calls made directly (last add, last checkOverlap, api request issued)
  dataSource,             \* "local" or "server": where the store persists
  ranging,                \* the call of getInterval(scale).range in progress, if any
  now,                    \* the clock read by new Date() (environment)
  timeScale,              \* component.timeScale
  viewportStart,          \* component.viewportStart
  viewportEnd,            \* component.viewportEnd
  cursorDate,             \* component.cursorDate
  isLoadingMore,          \* component.isLoadingMore
  panStartX,              \* component.panStartX
  panStartViewportStart,  \* component.panStartViewportStart
  syncPending,            \* syncDataEffect is scheduled and has not run yet
  lastEvent,              \* observation of the last viewport event handled
  isLoading,              \* store.isLoading
  stored,                 \* localStorage[STORAGE_KEY]: the text last written, if any
  serverFile,             \* the orders file the server keeps
  inflight,               \* http requests sent and not yet answered to their subscriber
  persistPending,         \* the store's persistence effect is scheduled and has not run yet
  uncaught,               \* observation: an error left the store with no handler installed
  netOps                  \* how many store calls and page loads the session has made

\* The view side of the component: the viewport, the cursor and what the
\* handlers keep for panning and infinite scroll.
viewVars == <<now, timeScale, viewportStart, viewportEnd, cursorDate,
              isLoadingMore, panStartX, panStartViewportStart, syncPending,
              lastEvent>>

\* The store's persistence: loading flag, local storage, server and network.
netVars == <<isLoading, stored, serverFile, inflight, persistPending, uncaught,
            netOps>>

vars == <<zone, workOrders, nextId, statusFilter, dragState, isPanning,
          cursorDragging, didDrag, mouseDownPos, mouseDownWorkCenterId,
          panel, lastFrame, query, dataSource, ranging,
          now, timeScale, viewportStart, viewportEnd,
          cursorDate, isLoadingMore, panStartX, panStartViewportStart,
          syncPending, lastEvent, isLoading, stored, serverFile, inflight,
          persistPending, uncaught, netOps>>

\* ------------------------------------------------------------ calendar
\* new Date("YYYY-MM-DD").getTime(): midnight UTC of the day.
ParseIso(day) == day * HoursPerDay

\* The zone's UTC offset in force at instant t.
OffsetAt(z, t) == IF t < z.at THEN z.before ELSE z.after

\* Date#getFullYear/getMonth/getDate: the local calendar day of instant t.
LocalDay(z, t) == (t + OffsetAt(z, t)) \div HoursPerDay

\* new Date(y, m, d): the instant of local midnight of a calendar day.
LocalMidnight(z, day) ==
  LET early == day * HoursPerDay - z.before
  IN  IF early < z.at THEN early ELSE day * HoursPerDay - z.after

\* toIso(d): the local calendar day, formatted.
toIso(z, t) == LocalDay(z, t)

\* d3.timeDay.floor / ceil / round.
timeDayFloor(z, t) == LocalMidnight(z, LocalDay(z, t))

timeDayCeil(z, t) ==
  IF timeDayFloor(z, t) = t THEN t ELSE LocalMidnight(z, LocalDay(z, t) + 1)

timeDayRound(z, t) ==
  LET d0 == timeDayFloor(z, t)
      d1 == timeDayCeil(z, t)
  IN  IF t - d0 < d1 - t THEN d0 ELSE d1

\* ------------------------------------------- d3 intervals: day, week, month
\* The model's calendar: day 0 is 1 January of a year of twelve months, and
\* falls on weekday EpochWeekday (0 = Sunday).
EpochWeekday == 4
MonthLengths == <<31, 28, 31, 30, 31, 30, 31, 31, 30, 31, 30, 31>>

RECURSIVE SumLengths(_)
SumLengths(m) ==
  IF m <= 1 THEN 0 ELSE SumLengths(m - 1) + MonthLengths[m - 1]

\* The days of the year before each month, and before the next year.
MonthStarts == [m \in 1..(Len(MonthLengths) + 1) |-> SumLengths(m)]

DaysBeforeMonth(m) == MonthStarts[m]

DaysPerYear == DaysBeforeMonth(Len(MonthLengths) + 1)

\* The instant at which the zone's wall clock shows local time l (hours).
FromLocal(z, l) == IF l - z.before < z.at THEN l - z.before ELSE l - z.after

\* The wall-clock time (hours since the model's epoch) at instant t.
ToLocal(z, t) == t + OffsetAt(z, t)

\* Date#getMonth with the year folded in: months since the epoch, from 0.
MonthIndex(day) ==
  LET y == day \div DaysPerYear
      d == day % DaysPerYear
      m == CHOOSE k \in 1..Len(MonthLengths) :
             /\ DaysBeforeMonth(k) <= d
             /\ d < DaysBeforeMonth(k + 1)
  IN  y * Len(MonthLengths) + (m - 1)

\* The calendar day on which month number M (from 0) begins.
MonthFirstDay(M) ==
  (M \div Len(MonthLengths)) * DaysPerYear
    + DaysBeforeMonth((M % Len(MonthLengths)) + 1)

\* interval.floor: the latest boundary of the scale at or before t, local time.
intervalFloor(z, scale, t) ==
  LET day == LocalDay(z, t)
  IN  CASE scale = "Day" -> LocalMidnight(z, day)
        [] scale = "Week" ->
             LocalMidnight(z, day - ((day + EpochWeekday) % 7))
        [] scale = "Month" ->
             LocalMidnight(z, MonthFirstDay(MonthIndex(day)))

\* interval.offset: setDate / setMonth on the local date, keeping the time of
\* day; a day of month past the target month's end rolls into the next month.
intervalOffset(z, scale, t, step) ==
  LET l == ToLocal(z, t)
      day == l \div HoursPerDay
      hour == l % HoursPerDay
      M == MonthIndex(day)
      shifted == CASE scale = "Day" -> day + step
                   [] scale = "Week" -> day + step * 7
                   [] scale = "Month" ->
                        MonthFirstDay(M + step) + (day - MonthFirstDay(M))
  IN  FromLocal(z, shifted * HoursPerDay + hour)

\* interval.ceil(d) = floor(offset(floor(d - 1), 1)).
intervalCeil(z, scale, t) ==
  intervalFloor(z, scale,
    intervalOffset(z, scale, intervalFloor(z, scale, t - 1), 1))

\* ------------------------------------------- getInterval: floor and plus
\* The weekday of the model's day 0, counted from Monday (weeks start on
\* Monday for startOf('week')).
EpochWeekdayIso == 3

\* floorToScale: startOf('day' | 'week' | 'month') in local time.
floorToScale(z, scale, t) ==
  LET day == LocalDay(z, t)
  IN  CASE scale = "Day" -> LocalMidnight(z, day)
        [] scale = "Week" ->
             LocalMidnight(z, day - ((day + EpochWeekdayIso) % 7))
        [] scale = "Month" ->
             LocalMidnight(z, MonthFirstDay(MonthIndex(day)))

\* plus({ [unit]: 1 }): one calendar unit later at the same local time of
\* day; a day of month the next month lacks becomes that month's last day.
plusUnit(z, scale, t) ==
  LET l == ToLocal(z, t)
      day == l \div HoursPerDay
      hour == l % HoursPerDay
      M == MonthIndex(day)
      lastOfNext == MonthFirstDay(M + 2) - 1
      sameDayNext == MonthFirstDay(M + 1) + (day - MonthFirstDay(M))
      shifted == CASE scale = "Day" -> day + 1
                   [] scale = "Week" -> day + 7
                   [] scale = "Month" ->
                        IF sameDayNext > lastOfNext THEN lastOfNext ELSE sameDayNext
  IN  FromLocal(z, shifted * HoursPerDay + hour)

\* No call of range is in progress and none has returned.
NotRanging == [pc |-> "idle", scale |-> "Day", start |-> 0, end |-> 0,
               current |-> 0, dates |-> <<>>]

\* ------------------------------------------------------------ the store
Order(id, wc, st, s, e) ==
  [docId |-> id, workCenterId |-> wc, status |-> st, startDate |-> s, endDate |-> e]

Data(wc, st, s, e) ==
  [workCenterId |-> wc, status |-> st, startDate |-> s, endDate |-> e]


\* Variants of the overlap test with a plausible slip: one that only looks at
\* where the new range starts, one that treats touching ranges as overlapping.
RangesOverlapStartOnly(startMs, endMs, orderStartMs, orderEndMs) ==
  startMs < orderEndMs /\ startMs >= orderStartMs

RangesOverlapClosed(startMs, endMs, orderStartMs, orderEndMs) ==
  startMs <= orderEndMs /\ endMs >= orderStartMs

\* The half-open overlap test of checkOverlap's loop body.
RangesOverlap(startMs, endMs, orderStartMs, orderEndMs) ==
  startMs < orderEndMs /\ endMs > orderStartMs

\* Variants of the scan with a plausible slip: one that forgets the excluded
\* order, one that returns the last match instead of the first.
FindOverlapNoExclude(orders, i, workCenterId, startMs, endMs, excludeDocId) ==
  LET hits == {j \in i..Len(orders) :
                 /\ orders[j].workCenterId = workCenterId
                 /\ startMs < ParseIso(orders[j].endDate)
                 /\ endMs > ParseIso(orders[j].startDate)}
  IN  IF hits = {} THEN Null
      ELSE Some(orders[CHOOSE j \in hits : \A k \in hits : j <= k])

FindOverlapLast(orders, i, workCenterId, startMs, endMs, excludeDocId) ==
  LET hits == {j \in i..Len(orders) :
                 /\ Some(orders[j].docId) # excludeDocId
                 /\ orders[j].workCenterId = workCenterId
                 /\ startMs < ParseIso(orders[j].endDate)
                 /\ endMs > ParseIso(orders[j].startDate)}
  IN  IF hits = {} THEN Null
      ELSE Some(orders[CHOOSE j \in hits : \A k \in hits : j >= k])

\* Array.prototype.find over the collection: the first order that is not the
\* excluded one, is on the work center, and overlaps the range.
RECURSIVE FindOverlap(_, _, _, _, _, _)
FindOverlap(orders, i, workCenterId, startMs, endMs, excludeDocId) ==
  IF i > Len(orders) THEN Null
  ELSE IF /\ Some(orders[i].docId) # excludeDocId
          /\ orders[i].workCenterId = workCenterId
          /\ RangesOverlap(startMs, endMs,
                           ParseIso(orders[i].startDate), ParseIso(orders[i].endDate))
       THEN Some(orders[i])
       ELSE FindOverlap(orders, i + 1, workCenterId, startMs, endMs, excludeDocId)

checkOverlap(orders, workCenterId, startDate, endDate, excludeDocId) ==
  FindOverlap(orders, 1, workCenterId, ParseIso(startDate), ParseIso(endDate),
              excludeDocId)

\* A variant of add that puts the new order in front.
addWorkOrderFront(orders, id, data) ==
  <<Order(id, data.workCenterId, data.status, data.startDate, data.endDate)>> \o orders

\* A variant of add that writes the new order over the last one.
addWorkOrderOverLast(orders, id, data) ==
  IF orders = <<>>
  THEN <<Order(id, data.workCenterId, data.status, data.startDate, data.endDate)>>
  ELSE [orders EXCEPT ![Len(orders)] =
          Order(id, data.workCenterId, data.status, data.startDate, data.endDate)]

addWorkOrder(orders, id, data) ==
  Append(orders, Order(id, data.workCenterId, data.status, data.startDate, data.endDate))

\* A variant of update that moves the updated order behind the others.
updateWorkOrderMoveLast(orders, docId, data) ==
  SelectSeq(orders, LAMBDA o : o.docId # docId)
    \o [i \in 1..Len(SelectSeq(orders, LAMBDA o : o.docId = docId)) |->
          Order(docId, data.workCenterId, data.status, data.startDate, data.endDate)]

\* A variant of update that keeps the previous version behind the others.
updateWorkOrderKeepsOld(orders, docId, data) ==
  [i \in 1..Len(orders) |->
     IF orders[i].docId = docId
     THEN Order(docId, data.workCenterId, data.status, data.startDate, data.endDate)
     ELSE orders[i]]
    \o SelectSeq(orders, LAMBDA o : o.docId = docId)

updateWorkOrder(orders, docId, data) ==
  [i \in 1..Len(orders) |->
     IF orders[i].docId = docId
     THEN Order(docId, data.workCenterId, data.status, data.startDate, data.endDate)
     ELSE orders[i]]

deleteWorkOrder(orders, docId) ==
  SelectSeq(orders, LAMBDA o : o.docId # docId)

filteredWorkOrders ==
  IF statusFilter = "all" THEN workOrders
  ELSE SelectSeq(workOrders, LAMBDA o : o.status = statusFilter)

\* No direct store call has been observed.
NoQuery == [added |-> Null, check |-> Null, returned |-> Null, api |-> Null]

\* The persistence side at rest: nothing stored, nothing sent, nothing scheduled.
NetQuiet ==
  /\ isLoading = FALSE
  /\ stored = Null
  /\ serverFile = <<>>
  /\ inflight = {}
  /\ persistPending = FALSE
  /\ uncaught = FALSE
  /\ netOps = 0

\* ------------------------------------------------- timeline: pointer down
\* onTimelineMouseDown (left button on an empty track of row workCenterId).
TimelineMouseDown(workCenterId, x) ==
  /\ panel = Null
  /\ mouseDownPos' = Some(x)
  /\ mouseDownWorkCenterId' = Some(workCenterId)
  /\ didDrag' = FALSE
  /\ isPanning' = TRUE
  /\ lastFrame' = Null
  /\ UNCHANGED <<zone, workOrders, nextId, statusFilter, dragState,
                 cursorDragging, panel, query, dataSource, ranging, netVars>>

\* The dragState literal built by onBarMouseDown / onResizeMouseDown.
NewDragState(order, mode) ==
  [orderId |-> order.docId, mode |-> mode,
   originalStart |-> ParseIso(order.startDate),
   originalEnd |-> ParseIso(order.endDate)]

\* onBarMouseDown on the body of a rendered bar.
BarMouseDown(i) ==
  /\ panel = Null
  /\ i \in 1..Len(filteredWorkOrders)
  /\ didDrag' = TRUE
  /\ dragState' = Some(NewDragState(filteredWorkOrders[i], "move"))
  /\ lastFrame' = Null
  /\ UNCHANGED <<zone, workOrders, nextId, statusFilter, isPanning,
                 cursorDragging, mouseDownPos, mouseDownWorkCenterId, panel, query, dataSource, ranging, netVars>>

\* onResizeMouseDown on an edge handle of a rendered bar.
ResizeMouseDown(i, edge) ==
  /\ panel = Null
  /\ i \in 1..Len(filteredWorkOrders)
  /\ didDrag' = TRUE
  /\ dragState' = Some(NewDragState(filteredWorkOrders[i],
                         IF edge = "start" THEN "resize-start" ELSE "resize-end"))
  /\ lastFrame' = Null
  /\ UNCHANGED <<zone, workOrders, nextId, statusFilter, isPanning,
                 cursorDragging, mouseDownPos, mouseDownWorkCenterId, panel, query, dataSource, ranging, netVars>>

\* onCursorMouseDown on the cursor handle.
CursorMouseDown ==
  /\ panel = Null
  /\ cursorDragging' = TRUE
  /\ didDrag' = TRUE
  /\ lastFrame' = Null
  /\ UNCHANGED <<zone, workOrders, nextId, statusFilter, dragState, isPanning,
                 mouseDownPos, mouseDownWorkCenterId, panel, query, dataSource, ranging, netVars>>

\* ------------------------------------------------- timeline: pointer move
Abs(n) == IF n < 0 THEN 0 - n ELSE n

\* A mousemove while no gesture flag is set: onTimelineMouseMove (when the
\* pointer is over the timeline) marks a drag past the threshold;
\* onGlobalMouseMove returns at `if (!this.dragState) return`.
IdleMouseMove(x, overTimeline) ==
  /\ ~cursorDragging /\ ~isPanning /\ dragState = Null
  /\ overTimeline => panel = Null
  /\ didDrag' = IF /\ overTimeline
                   /\ mouseDownPos # Null
                   /\ Abs(x - mouseDownPos[1]) >= DRAG_THRESHOLD
                THEN TRUE ELSE didDrag
  /\ lastFrame' = Null
  /\ UNCHANGED <<zone, workOrders, nextId, statusFilter, dragState, isPanning,
                 cursorDragging, mouseDownPos, mouseDownWorkCenterId, panel, query, dataSource, ranging, netVars>>

\* onGlobalMouseMove, cursorDragging branch: only the cursor date and the
\* viewport signals are written, which are outside this model's state.
CursorDragMove ==
  /\ cursorDragging
  /\ lastFrame' = Null
  /\ UNCHANGED <<zone, workOrders, nextId, statusFilter, dragState, isPanning,
                 cursorDragging, didDrag, mouseDownPos, mouseDownWorkCenterId,
                 panel, query, dataSource, ranging, netVars>>

\* onGlobalMouseMove, isPanning branch: only the viewport signals are written.
PanMove ==
  /\ ~cursorDragging /\ isPanning
  /\ lastFrame' = Null
  /\ UNCHANGED <<zone, workOrders, nextId, statusFilter, dragState, isPanning,
                 cursorDragging, didDrag, mouseDownPos, mouseDownWorkCenterId,
                 panel, query, dataSource, ranging, netVars>>

\* The order of the rendered (filtered) list with the dragged id, if any:
\* this.workOrders().find(o => o.docId === dragState.orderId).
RECURSIVE FindById(_, _, _)
FindById(orders, i, docId) ==
  IF i > Len(orders) THEN Null
  ELSE IF orders[i].docId = docId THEN Some(orders[i])
       ELSE FindById(orders, i + 1, docId)

\* case 'move': the start is snapped to a local day, the end is start + duration.
MoveCandidate(z, ds, target, deltaMs) ==
  LET duration == ds.originalEnd - ds.originalStart
      newStart == timeDayRound(z, ds.originalStart + deltaMs)
  IN  [startDate |-> toIso(z, newStart),
       endDate |-> toIso(z, newStart + duration),
       snapped |-> toIso(z, newStart)]

\* case 'resize-start': the snapped start is taken only if it is before the
\* end the order had at pointer-down.
ResizeStartCandidate(z, ds, target, deltaMs) ==
  LET snapped == timeDayRound(z, ds.originalStart + deltaMs)
  IN  [startDate |-> IF snapped < ds.originalEnd THEN toIso(z, snapped)
                     ELSE target.startDate,
       endDate |-> target.endDate,
       snapped |-> toIso(z, snapped)]

\* A variant of the resize-end case without its guard.
ResizeEndUnguarded(z, ds, target, deltaMs) ==
  LET snapped == timeDayRound(z, ds.originalEnd + deltaMs)
  IN  [startDate |-> target.startDate,
       endDate |-> toIso(z, snapped),
       snapped |-> toIso(z, snapped)]

\* case 'resize-end': the snapped end is taken only if it is after the start
\* the order had at pointer-down.
ResizeEndCandidate(z, ds, target, deltaMs) ==
  LET snapped == timeDayRound(z, ds.originalEnd + deltaMs)
  IN  [startDate |-> target.startDate,
       endDate |-> IF snapped > ds.originalStart THEN toIso(z, snapped)
                   ELSE target.endDate,
       snapped |-> toIso(z, snapped)]

FrameCandidate(z, ds, target, deltaMs) ==
  CASE ds.mode = "move" -> MoveCandidate(z, ds, target, deltaMs)
    [] ds.mode = "resize-start" -> ResizeStartCandidate(z, ds, target, deltaMs)
    [] ds.mode = "resize-end" -> ResizeEndCandidate(z, ds, target, deltaMs)

\* The overlap check a drag frame makes before it updates the store.
FrameOverlap(orders, target, cand) ==
  checkOverlap(orders, target.workCenterId, cand.startDate, cand.endDate,
               Some(target.docId))

\* How the snapped edge of a resize frame lies against the order's other edge:
\* "ok" (start < end), "empty" (start = end) or "inverted" (start > end).
FrameShape(ds, target, cand) ==
  LET s == IF ds.mode = "resize-start" THEN cand.snapped ELSE target.startDate
      e == IF ds.mode = "resize-end" THEN cand.snapped ELSE target.endDate
  IN  IF ds.mode = "move" THEN "ok"
      ELSE IF s < e THEN "ok" ELSE IF s = e THEN "empty" ELSE "inverted"

\* onGlobalMouseMove, dragState branch: one frame of a bar drag.
BarDragFrame(deltaMs) ==
  /\ ~cursorDragging /\ ~isPanning /\ dragState # Null
  /\ LET ds == dragState[1]
         found == FindById(filteredWorkOrders, 1, ds.orderId)
     IN  IF found = Null
         THEN /\ workOrders' = workOrders
              /\ lastFrame' = Some([found |-> FALSE, shape |-> "ok",
                                    overlap |-> FALSE, updated |-> FALSE,
                                    changed |-> FALSE])
         ELSE LET target == found[1]
                  cand == FrameCandidate(zone, ds, target, deltaMs)
                  overlap == FrameOverlap(workOrders, target, cand)
                  next == IF overlap # Null THEN workOrders
                          ELSE updateWorkOrder(workOrders, target.docId,
                                 Data(target.workCenterId, target.status,
                                      cand.startDate, cand.endDate))
              IN  /\ cand.startDate \in Days /\ cand.endDate \in Days
                  /\ workOrders' = next
                  /\ lastFrame' = Some([found |-> TRUE,
                                        shape |-> FrameShape(ds, target, cand),
                                        overlap |-> overlap # Null,
                                        updated |-> overlap = Null,
                                        changed |-> next # workOrders])
  /\ UNCHANGED <<zone, nextId, statusFilter, dragState, isPanning,
                 cursorDragging, didDrag, mouseDownPos, mouseDownWorkCenterId,
                 panel, query, dataSource, ranging, netVars>>

\* --------------------------------------------------- timeline: pointer up
\* What is observed of a pointer-up that ends a bar drag: no frame was
\* handled, the drag was released.
DragReleased ==
  Some([found |-> FALSE, shape |-> "released", overlap |-> FALSE,
        updated |-> FALSE, changed |-> FALSE])

\* The create panel opened by openCreatePanel.
CreatePanel(workCenterId) ==
  [mode |-> "create", workCenterId |-> workCenterId, docId |-> Null,
   submitted |-> FALSE, overlapError |-> Null]

\* mouseup over the row of workCenterId: onTimelineMouseUp, then the
\* document listener onGlobalMouseUp.
TimelineMouseUp(workCenterId, x) ==
  /\ panel = Null
  /\ LET click == /\ ~didDrag
                  /\ mouseDownPos # Null
                  /\ Abs(x - mouseDownPos[1]) < DRAG_THRESHOLD
     IN  panel' = IF click THEN Some(CreatePanel(workCenterId)) ELSE panel
  /\ isPanning' = FALSE
  /\ mouseDownPos' = Null
  /\ mouseDownWorkCenterId' = Null
  /\ dragState' = Null
  /\ cursorDragging' = FALSE
  /\ lastFrame' = IF dragState # Null THEN DragReleased ELSE Null
  /\ UNCHANGED <<zone, workOrders, nextId, statusFilter, didDrag, query, dataSource, ranging, netVars>>

\* onGlobalMouseUp leaving the bar drag in place.
GlobalMouseUpKeepsDrag ==
  /\ dragState' = dragState
  /\ cursorDragging' = FALSE
  /\ isPanning' = FALSE
  /\ lastFrame' = IF dragState # Null THEN DragReleased ELSE Null
  /\ UNCHANGED <<zone, workOrders, nextId, statusFilter, didDrag, mouseDownPos,
                 mouseDownWorkCenterId, panel, query, dataSource, ranging, netVars>>

\* mouseup anywhere else in the document: onGlobalMouseUp alone.
GlobalMouseUp ==
  /\ dragState' = Null
  /\ cursorDragging' = FALSE
  /\ isPanning' = FALSE
  /\ lastFrame' = IF dragState # Null THEN DragReleased ELSE Null
  /\ UNCHANGED <<zone, workOrders, nextId, statusFilter, didDrag, mouseDownPos,
                 mouseDownWorkCenterId, panel, query, dataSource, ranging, netVars>>

\* ------------------------------------------------------ menu and dialog
\* No gesture flag is set.  The menu and the confirm dialog are operated by
\* clicks, and the mouseup of a click has run onGlobalMouseUp before the
\* click handler runs.
NoGesture == dragState = Null /\ ~isPanning /\ ~cursorDragging

\* onMenuEdit -> openEditPanel: the panel keeps the order it was opened on.
MenuEdit(i) ==
  /\ panel = Null
  /\ NoGesture
  /\ i \in 1..Len(filteredWorkOrders)
  /\ panel' = Some([mode |-> "edit",
                    workCenterId |-> filteredWorkOrders[i].workCenterId,
                    docId |-> Some(filteredWorkOrders[i].docId),
                    submitted |-> FALSE, overlapError |-> Null])
  /\ lastFrame' = Null
  /\ UNCHANGED <<zone, workOrders, nextId, statusFilter, dragState, isPanning,
                 cursorDragging, didDrag, mouseDownPos, mouseDownWorkCenterId,
                 query, dataSource, ranging, netVars>>

\* onMenuDelete on a rendered bar, then onConfirmDelete in the dialog.
ConfirmDelete(i) ==
  /\ panel = Null
  /\ NoGesture
  /\ i \in 1..Len(filteredWorkOrders)
  /\ workOrders' = deleteWorkOrder(workOrders, filteredWorkOrders[i].docId)
  /\ lastFrame' = Null
  /\ UNCHANGED <<zone, nextId, statusFilter, dragState, isPanning,
                 cursorDragging, didDrag, mouseDownPos, mouseDownWorkCenterId,
                 panel, query, dataSource, ranging, netVars>>

\* ------------------------------------------------------- the panel's form
\* dateRangeValidator: both dates as local midnights, the end strictly later.
dateRangeValid(z, startDay, endDay) ==
  LocalMidnight(z, endDay) > LocalMidnight(z, startDay)

\* form.invalid: a required field is missing or the date range is invalid.
FormInvalid(z, nameGiven, startDay, endDay) ==
  ~nameGiven \/ ~dateRangeValid(z, startDay, endDay)

\* The overlap check of onSubmit: on the panel's work center, excluding the
\* edited order in edit mode.
SubmitOverlap(orders, p, startDay, endDay) ==
  checkOverlap(orders, p.workCenterId, startDay, endDay,
               IF p.mode = "edit" THEN p.docId ELSE Null)

\* handlePanelSave: add in create mode, update in edit mode.
handlePanelSave(orders, id, p, data) ==
  IF p.mode = "create" THEN addWorkOrder(orders, id, data)
  ELSE IF p.docId # Null THEN updateWorkOrder(orders, p.docId[1], data)
       ELSE orders

\* The text of overlapError: the colliding order's name and its dates (the
\* dates are what the model keeps of an order's data).
OverlapMessage(overlap) ==
  Some([startDate |-> overlap.startDate, endDate |-> overlap.endDate])

\* What is observed of a submit: where onSubmit returned ("submit-invalid"
\* before the overlap check, "submit-overlap" after a conflict, "submit-closed"
\* after closing with the save event), whether checkOverlap reported an
\* order, whether the store's add or update was called, whether the
\* collection changed.
Submitted(shape, overlap, updated, changed) ==
  Some([found |-> FALSE, shape |-> shape, overlap |-> overlap,
        updated |-> updated, changed |-> changed])

\* onSubmit with the overlap branch left out: a conflict closes the panel too.
PanelSubmitNoOverlapBranch(nameGiven, status, startDay, endDay) ==
  /\ panel # Null
  /\ LET p == panel[1]
         data == Data(p.workCenterId, status, startDay, endDay)
     IN  IF FormInvalid(zone, nameGiven, startDay, endDay)
         THEN /\ panel' = Some([p EXCEPT !.submitted = TRUE])
              /\ lastFrame' = Submitted("submit-invalid", FALSE, FALSE, FALSE)
              /\ UNCHANGED <<workOrders, nextId>>
         ELSE /\ p.mode = "create" => nextId <= MaxOrders
              /\ workOrders' = handlePanelSave(workOrders, nextId, p, data)
              /\ nextId' = IF p.mode = "create" THEN nextId + 1 ELSE nextId
              /\ panel' = Null
              /\ lastFrame' = Submitted("submit-closed", FALSE, TRUE,
                                        workOrders' # workOrders)
  /\ UNCHANGED <<zone, statusFilter, dragState, isPanning, cursorDragging,
                 didDrag, mouseDownPos, mouseDownWorkCenterId, query, dataSource, ranging, netVars>>

\* onSubmit with the validity test left out.
PanelSubmitNoValidation(nameGiven, status, startDay, endDay) ==
  /\ panel # Null
  /\ LET p == panel[1]
         data == Data(p.workCenterId, status, startDay, endDay)
         overlap == SubmitOverlap(workOrders, p, startDay, endDay)
     IN  IF overlap # Null
         THEN /\ panel' = Some([p EXCEPT !.submitted = TRUE,
                                         !.overlapError = OverlapMessage(overlap[1])])
              /\ lastFrame' = Submitted("submit-overlap", TRUE, FALSE, FALSE)
              /\ UNCHANGED <<workOrders, nextId>>
         ELSE /\ p.mode = "create" => nextId <= MaxOrders
              /\ workOrders' = handlePanelSave(workOrders, nextId, p, data)
              /\ nextId' = IF p.mode = "create" THEN nextId + 1 ELSE nextId
              /\ panel' = Null
              /\ lastFrame' = Submitted("submit-closed", FALSE, TRUE,
                                        workOrders' # workOrders)
  /\ UNCHANGED <<zone, statusFilter, dragState, isPanning, cursorDragging,
                 didDrag, mouseDownPos, mouseDownWorkCenterId, query, dataSource, ranging, netVars>>

\* onSubmit of the panel with the form's current values: submitted is set;
\* an invalid form returns at once; a conflict sets overlapError and returns;
\* otherwise the panel closes with the save event, which handlePanelSave
\* applies.
PanelSubmit(nameGiven, status, startDay, endDay) ==
  /\ panel # Null
  /\ LET p == panel[1]
         data == Data(p.workCenterId, status, startDay, endDay)
         overlap == SubmitOverlap(workOrders, p, startDay, endDay)
     IN  IF FormInvalid(zone, nameGiven, startDay, endDay)
         THEN /\ panel' = Some([p EXCEPT !.submitted = TRUE])
              /\ lastFrame' = Submitted("submit-invalid", FALSE, FALSE, FALSE)
              /\ UNCHANGED <<workOrders, nextId>>
         ELSE IF overlap # Null
         THEN /\ panel' = Some([p EXCEPT !.submitted = TRUE,
                                         !.overlapError = OverlapMessage(overlap[1])])
              /\ lastFrame' = Submitted("submit-overlap", TRUE, FALSE, FALSE)
              /\ UNCHANGED <<workOrders, nextId>>
         ELSE /\ p.mode = "create" => nextId <= MaxOrders
              /\ workOrders' = handlePanelSave(workOrders, nextId, p, data)
              /\ nextId' = IF p.mode = "create" THEN nextId + 1 ELSE nextId
              /\ panel' = Null
              /\ lastFrame' = Submitted("submit-closed", FALSE, TRUE,
                                        workOrders' # workOrders)
  /\ UNCHANGED <<zone, statusFilter, dragState, isPanning, cursorDragging,
                 didDrag, mouseDownPos, mouseDownWorkCenterId, query, dataSource, ranging, netVars>>

\* onCancel / onEscapeKey / backdrop: the panel is dismissed.
PanelDismiss ==
  /\ panel # Null
  /\ panel' = Null
  /\ lastFrame' = Null
  /\ UNCHANGED <<zone, workOrders, nextId, statusFilter, dragState, isPanning,
                 cursorDragging, didDrag, mouseDownPos, mouseDownWorkCenterId, query, dataSource, ranging, netVars>>

\* ------------------------------------------------- the view as constructed
\* The clock of the session.
Nows == {ParseIso(1) + 9}

\* The observation kept of the last viewport event: its kind, the pointer x
\* and scroll geometry it came with, the largest pointer displacement of the
\* pan frames handled since the last pointer-down on a track, the number
\* of events so far that set the viewport or the cursor, and what scheduled
\* the isLoadingMore reset timer that has not fired yet ("none" without one).
Event(kind, x, geom, peak) ==
  [kind |-> kind, x |-> x, geom |-> geom, peak |-> peak, n |-> lastEvent.n,
   timer |-> lastEvent.timer]

\* The same observation for an event that sets the viewport or the cursor;
\* a session is followed for MaxViewEvents of them.
Counted(kind, x, geom, peak) ==
  [Event(kind, x, geom, peak) EXCEPT !.n = lastEvent.n + 1]

MoreViewEvents == lastEvent.n < MaxViewEvents

\* An event the claims need not tell apart from other events.
Quiet == Event("other", 0, "middle", lastEvent.peak)
Seen(kind) == Event(kind, 0, "middle", lastEvent.peak)

\* The setTimeout of checkInfiniteScroll: a call that set isLoadingMore
\* scheduled the reset, from a scroll event or from a frame of a gesture.
Scheduled(event, loadingAfter, by) ==
  [event EXCEPT !.timer = IF ~isLoadingMore /\ loadingAfter THEN by ELSE @]

\* The component as constructed: both viewport signals and the cursor hold
\* new Date(), the scale is Day, and syncDataEffect is scheduled.
ViewConstructed ==
  /\ timeScale = "Day"
  /\ viewportStart = now
  /\ viewportEnd = now
  /\ cursorDate = Some(now)
  /\ isLoadingMore = FALSE
  /\ panStartX = 0
  /\ panStartViewportStart = 0
  /\ syncPending = TRUE
  /\ lastEvent = [kind |-> "none", x |-> 0, geom |-> "middle", peak |-> 0,
                  n |-> 0, timer |-> "none"]

\* ------------------------------------------------------ the application
\* A stored collection the application starts from: valid orders, no two on
\* the same work center overlapping (as getDefaultWorkOrders generates).
InitialOrders ==
  << Order(1, "wc-1", "open", 1, 2) >>

Init ==
  /\ zone \in Zones
  /\ workOrders = InitialOrders
  /\ nextId = Len(InitialOrders) + 1
  /\ statusFilter = "all"
  /\ dragState = Null
  /\ isPanning = FALSE
  /\ cursorDragging = FALSE
  /\ didDrag = FALSE
  /\ mouseDownPos = Null
  /\ mouseDownWorkCenterId = Null
  /\ panel = Null
  /\ lastFrame = Null
  /\ query = NoQuery
  /\ dataSource = "local"
  /\ ranging = NotRanging
  /\ NetQuiet
  /\ now \in Nows
  /\ ViewConstructed

\* The order side of the application: the handlers' effects on the store and
\* on the gesture flags.  The view side (viewVars) is followed by ViewSpec;
\* the order side reads it only through a drag frame's deltaMs, which is
\* drawn from DragDeltas.
Next ==
  \/ /\ \E wc \in WorkCenterIds, x \in PointerDownXs : TimelineMouseDown(wc, x)
     /\ UNCHANGED viewVars
  \/ /\ \E i \in 1..MaxOrders : BarMouseDown(i)
     /\ UNCHANGED viewVars
  \/ /\ \E i \in 1..MaxOrders, edge \in {"start", "end"} : ResizeMouseDown(i, edge)
     /\ UNCHANGED viewVars
  \/ /\ CursorMouseDown
     /\ UNCHANGED viewVars
  \/ /\ \E x \in PointerXs, over \in BOOLEAN : IdleMouseMove(x, over)
     /\ UNCHANGED viewVars
  \/ /\ CursorDragMove
     /\ UNCHANGED viewVars
  \/ /\ PanMove
     /\ UNCHANGED viewVars
  \/ /\ \E d \in DragDeltas : BarDragFrame(d)
     /\ UNCHANGED viewVars
  \/ /\ \E wc \in WorkCenterIds, x \in PointerXs : TimelineMouseUp(wc, x)
     /\ UNCHANGED viewVars
  \/ /\ GlobalMouseUp
     /\ UNCHANGED viewVars
  \/ /\ \E i \in 1..MaxOrders : MenuEdit(i)
     /\ UNCHANGED viewVars
  \/ /\ \E i \in 1..MaxOrders : ConfirmDelete(i)
     /\ UNCHANGED viewVars
  \/ /\ \E n \in BOOLEAN, st \in Statuses, s \in Days, e \in Days :
          PanelSubmit(n, st, s, e)
     /\ UNCHANGED viewVars
  \/ /\ PanelDismiss
     /\ UNCHANGED viewVars

Spec == Init /\ [][Next]_vars

\* ------------------------------------------- the store called on its own
\* The store exercised directly through its public methods, as its unit
\* tests do: the collection starts empty (initialState) and callers pass any
\* data, with no overlap check in front of add or update.
StoreData == {Data(wc, st, s, e) :
                wc \in WorkCenterIds, st \in Statuses,
                s \in Days, e \in Days}

ui == <<now, timeScale, viewportStart, viewportEnd, cursorDate,
        isLoadingMore, panStartX, panStartViewportStart, syncPending, lastEvent,
        zone, statusFilter, dragState, isPanning, cursorDragging, didDrag,
        mouseDownPos, mouseDownWorkCenterId, panel, lastFrame, dataSource, ranging, netVars>>

DataSources == {"local", "server"}

\* The request a store method hands to the ApiService: issued only when the
\* data source is the server, and then whatever the collection holds.
ApiRequest(op, docId) ==
  IF dataSource = "server" THEN Some([op |-> op, docId |-> docId]) ELSE Null

StoreInit ==
  /\ zone \in {z \in Zones : z.name = "UTC"}
  /\ workOrders = <<>>
  /\ nextId = 1
  /\ statusFilter = "all"
  /\ dragState = Null
  /\ isPanning = FALSE
  /\ cursorDragging = FALSE
  /\ didDrag = FALSE
  /\ mouseDownPos = Null
  /\ mouseDownWorkCenterId = Null
  /\ panel = Null
  /\ lastFrame = Null
  /\ query = NoQuery
  /\ dataSource = "local"
  /\ ranging = NotRanging
  /\ NetQuiet
  /\ now \in Nows
  /\ ViewConstructed

\* store.addWorkOrder(data).
StoreAdd(data) ==
  /\ nextId <= MaxOrders
  /\ data.startDate <= data.endDate
  /\ workOrders' = addWorkOrder(workOrders, nextId, data)
  /\ nextId' = nextId + 1
  /\ query' = [added |-> Some(nextId), check |-> Null, returned |-> Null,
               api |-> ApiRequest("create", nextId)]
  /\ UNCHANGED ui

\* store.updateWorkOrder(docId, data).
StoreUpdate(docId, data) ==
  /\ data.startDate <= data.endDate
  /\ workOrders' = updateWorkOrder(workOrders, docId, data)
  /\ query' = [NoQuery EXCEPT !.api = ApiRequest("update", docId)]
  /\ UNCHANGED <<nextId, ui>>

\* store.deleteWorkOrder(docId).
StoreDelete(docId) ==
  /\ workOrders' = deleteWorkOrder(workOrders, docId)
  /\ query' = [NoQuery EXCEPT !.api = ApiRequest("delete", docId)]
  /\ UNCHANGED <<nextId, ui>>

\* store.checkOverlap(workCenterId, startDate, endDate, excludeDocId?).
StoreCheckOverlap(workCenterId, startDate, endDate, excludeDocId) ==
  /\ query' = [added |-> query.added, returned |-> Null, api |-> Null,
               check |-> Some([workCenterId |-> workCenterId,
                               startDate |-> startDate, endDate |-> endDate,
                               excludeDocId |-> excludeDocId,
                               result |-> checkOverlap(workOrders, workCenterId,
                                            startDate, endDate, excludeDocId)])]
  /\ UNCHANGED <<workOrders, nextId, ui>>

StoreNext ==
  \/ \E data \in StoreData : StoreAdd(data)
  \/ \E id \in DocIds, data \in StoreData : StoreUpdate(id, data)
  \/ \E id \in DocIds : StoreDelete(id)
  \/ \E wc \in WorkCenterIds, s \in Days, e \in Days,
        ex \in {Null} \cup {Some(id) : id \in DocIds} :
       StoreCheckOverlap(wc, s, e, ex)

StoreSpec == StoreInit /\ [][StoreNext]_vars

\* ------------------------------------- the store with either data source
\* The store's mutators called directly after setDataSource has chosen where
\* the store persists; the collection starts empty (the server's list, or
\* initialState with nothing in localStorage).
SyncInit ==
  /\ zone \in {z \in Zones : z.name = "UTC"}
  /\ workOrders = <<>>
  /\ nextId = 1
  /\ statusFilter = "all"
  /\ dragState = Null
  /\ isPanning = FALSE
  /\ cursorDragging = FALSE
  /\ didDrag = FALSE
  /\ mouseDownPos = Null
  /\ mouseDownWorkCenterId = Null
  /\ panel = Null
  /\ lastFrame = Null
  /\ query = NoQuery
  /\ dataSource \in DataSources
  /\ ranging = NotRanging
  /\ NetQuiet
  /\ now \in Nows
  /\ ViewConstructed

SyncNext ==
  \/ \E data \in StoreData : StoreAdd(data)
  \/ \E id \in DocIds, data \in StoreData : StoreUpdate(id, data)
  \/ \E id \in DocIds : StoreDelete(id)

SyncSpec == SyncInit /\ [][SyncNext]_vars

\* ============================================================ the viewport
WeekHours == 7 * HoursPerDay
MinFitHours == 30 * HoursPerDay

MinOf(S) == CHOOSE m \in S : \A k \in S : m <= k
MaxOf(S) == CHOOSE m \in S : \A k \in S : m >= k

\* calculateFitToData without the 30-day minimum.
calculateFitToDataNoMinimum(z, orders, scale) ==
  IF orders = <<>> THEN Null
  ELSE LET minTime == MinOf({ParseIso(orders[i].startDate) : i \in 1..Len(orders)})
           maxTime == MaxOf({ParseIso(orders[i].endDate) : i \in 1..Len(orders)})
           start == intervalOffset(z, scale, minTime, -1)
           durationMs == maxTime - start + WeekHours
       IN  Some([start |-> start, end |-> start + durationMs])

\* calculateFitToData: nothing for an empty list; otherwise the earliest start
\* offset back one unit of the scale, and a span reaching a week past the
\* latest end, at least 30 days long.
calculateFitToData(z, orders, scale) ==
  IF orders = <<>> THEN Null
  ELSE LET minTime == MinOf({ParseIso(orders[i].startDate) : i \in 1..Len(orders)})
           maxTime == MaxOf({ParseIso(orders[i].endDate) : i \in 1..Len(orders)})
           start == intervalOffset(z, scale, minTime, -1)
           durationMs == MaxOf({maxTime - start + WeekHours, MinFitHours})
       IN  Some([start |-> start, end |-> start + durationMs])

\* Ten units on each side at every scale.
HalfWindowTen(scale) == 10

\* The number of scale units calculateViewportRange puts on each side.
HalfWindow(scale) ==
  CASE scale = "Day" -> 10 [] scale = "Week" -> 5 [] scale = "Month" -> 6

\* calculateViewportRange: date -/+ HalfWindow units, floored and ceiled.
calculateViewportRange(z, date, scale) ==
  [start |-> intervalFloor(z, scale,
               intervalOffset(z, scale, date, 0 - HalfWindow(scale))),
   end |-> intervalCeil(z, scale,
             intervalOffset(z, scale, date, HalfWindow(scale)))]

\* minDataDate: the earliest start of the rendered orders, or now.
minDataDate ==
  IF filteredWorkOrders = <<>> THEN now
  ELSE MinOf({ParseIso(filteredWorkOrders[i].startDate) :
                i \in 1..Len(filteredWorkOrders)})

totalSpanMs == viewportEnd - viewportStart

\* Where the gantt wrapper's scroll position is: within the buffer of its
\* right end, within the buffer of its left end, or neither (also: no call).
Geoms == {"middle", "right", "left"}

\* checkInfiniteScroll with the left expansion not clamped to the limit.
checkInfiniteScrollUnclamped(start, end, loading, geom) ==
  LET same == [start |-> start, end |-> end, loading |-> loading]
      addedTimeMs == (end - start) \div 2
      limitTime == minDataDate - WeekHours
  IN  IF loading THEN same
      ELSE IF geom = "right"
      THEN [start |-> start, end |-> end + addedTimeMs, loading |-> TRUE]
      ELSE IF geom = "left" /\ start > limitTime
      THEN [start |-> start - addedTimeMs, end |-> end, loading |-> TRUE]
      ELSE same

\* checkInfiniteScroll without the early return on isLoadingMore.
checkInfiniteScrollUnguarded(start, end, loading, geom) ==
  LET same == [start |-> start, end |-> end, loading |-> loading]
      addedTimeMs == (end - start) \div 2
      limitTime == minDataDate - WeekHours
  IN  IF geom = "right"
      THEN [start |-> start, end |-> end + addedTimeMs, loading |-> TRUE]
      ELSE IF geom = "left" /\ start > limitTime
      THEN [start |-> MaxOf({limitTime, start - addedTimeMs}), end |-> end,
            loading |-> TRUE]
      ELSE same

\* checkInfiniteScroll on a viewport [start, end): the viewport and the
\* isLoadingMore flag it leaves.
checkInfiniteScroll(start, end, loading, geom) ==
  LET same == [start |-> start, end |-> end, loading |-> loading]
      addedTimeMs == (end - start) \div 2
      limitTime == minDataDate - WeekHours
  IN  IF loading THEN same
      ELSE IF geom = "right"
      THEN [start |-> start, end |-> end + addedTimeMs, loading |-> TRUE]
      ELSE IF geom = "left" /\ start > limitTime
      THEN [start |-> MaxOf({limitTime, start - addedTimeMs}), end |-> end,
            loading |-> TRUE]
      ELSE same

\* The model follows pans and expansions inside [-MaxBackDays, MaxViewDays]
\* days.
ViewInBounds(start, end) ==
  /\ start >= 0 - MaxBackDays * HoursPerDay
  /\ end <= MaxViewDays * HoursPerDay

\* fitToData: the viewport a call leaves (unchanged when there is no data).
fitToData ==
  LET fit == calculateFitToData(zone, filteredWorkOrders, timeScale)
  IN  IF fit = Null THEN [start |-> viewportStart, end |-> viewportEnd]
      ELSE fit[1]

\* syncDataEffect: with orders rendered, fit the viewport to them and put the
\* cursor on the viewport start.
SyncData ==
  /\ syncPending
  /\ syncPending' = FALSE
  /\ IF filteredWorkOrders # <<>>
     THEN /\ viewportStart' = fitToData.start
          /\ viewportEnd' = fitToData.end
          /\ cursorDate' = Some(fitToData.start)
     ELSE UNCHANGED <<viewportStart, viewportEnd, cursorDate>>
  /\ lastEvent' = Quiet
  /\ UNCHANGED <<now, timeScale, isLoadingMore, panStartX, panStartViewportStart>>
  /\ UNCHANGED <<zone, workOrders, nextId, statusFilter, dragState, isPanning,
                 cursorDragging, didDrag, mouseDownPos, mouseDownWorkCenterId,
                 panel, lastFrame, query, dataSource, ranging, netVars>>

\* A direct call of fitToData().
FitToData ==
  /\ panel = Null
  /\ viewportStart' = fitToData.start
  /\ viewportEnd' = fitToData.end
  /\ MoreViewEvents
  /\ lastEvent' = Counted("fit", 0, "middle", lastEvent.peak)
  /\ UNCHANGED <<now, timeScale, cursorDate, isLoadingMore, panStartX,
                 panStartViewportStart, syncPending>>
  /\ UNCHANGED <<zone, workOrders, nextId, statusFilter, dragState, isPanning,
                 cursorDragging, didDrag, mouseDownPos, mouseDownWorkCenterId,
                 panel, lastFrame, query, dataSource, ranging, netVars>>

\* centerViewportOn(date): the window around the date, the cursor on the date.
centerViewportOn(date) ==
  LET range == calculateViewportRange(zone, date, timeScale')
  IN  /\ viewportStart' = range.start
      /\ viewportEnd' = range.end
      /\ cursorDate' = Some(date)

\* onTimeScaleChange(scale): the anchor is the cursor, or now without one.
TimeScaleChange(scale) ==
  /\ panel = Null
  /\ timeScale' = scale
  /\ centerViewportOn(IF cursorDate = Null THEN now ELSE cursorDate[1])
  /\ MoreViewEvents
  /\ lastEvent' = Counted("zoom", 0, "middle", lastEvent.peak)
  /\ UNCHANGED <<now, isLoadingMore, panStartX, panStartViewportStart, syncPending>>
  /\ UNCHANGED <<zone, workOrders, nextId, statusFilter, dragState, isPanning,
                 cursorDragging, didDrag, mouseDownPos, mouseDownWorkCenterId,
                 panel, lastFrame, query, dataSource, ranging, netVars>>

\* centerViewportOnToday.
CenterOnToday ==
  /\ panel = Null
  /\ timeScale' = timeScale
  /\ centerViewportOn(now)
  /\ MoreViewEvents
  /\ lastEvent' = Counted("other", 0, "middle", lastEvent.peak)
  /\ UNCHANGED <<now, isLoadingMore, panStartX, panStartViewportStart, syncPending>>
  /\ UNCHANGED <<zone, workOrders, nextId, statusFilter, dragState, isPanning,
                 cursorDragging, didDrag, mouseDownPos, mouseDownWorkCenterId,
                 panel, lastFrame, query, dataSource, ranging, netVars>>

\* onGanttScroll, and the timers that call checkInfiniteScroll.
GanttScroll(geom) ==
  /\ LET r == checkInfiniteScroll(viewportStart, viewportEnd, isLoadingMore, geom)
     IN  /\ ViewInBounds(r.start, r.end)
         /\ viewportStart' = r.start
         /\ viewportEnd' = r.end
         /\ isLoadingMore' = r.loading
  /\ MoreViewEvents
  /\ lastEvent' = Scheduled(Counted("scroll", 0, geom, lastEvent.peak),
                            isLoadingMore', "scroll")
  /\ UNCHANGED <<now, timeScale, cursorDate, panStartX, panStartViewportStart,
                 syncPending>>
  /\ UNCHANGED <<zone, workOrders, nextId, statusFilter, dragState, isPanning,
                 cursorDragging, didDrag, mouseDownPos, mouseDownWorkCenterId,
                 panel, lastFrame, query, dataSource, ranging, netVars>>

\* setTimeout(() => this.isLoadingMore = false, 50).
LoadingTimer ==
  /\ isLoadingMore
  /\ isLoadingMore' = FALSE
  /\ lastEvent' = [Quiet EXCEPT !.timer = "none"]
  /\ UNCHANGED <<now, timeScale, viewportStart, viewportEnd, cursorDate,
                 panStartX, panStartViewportStart, syncPending>>
  /\ UNCHANGED <<zone, workOrders, nextId, statusFilter, dragState, isPanning,
                 cursorDragging, didDrag, mouseDownPos, mouseDownWorkCenterId,
                 panel, lastFrame, query, dataSource, ranging, netVars>>

\* ------------------------------------------- pointer handlers, view side
\* A pan frame's pointer x, and where the scroll position is then.
PanFrames == {<<0, "middle">>, <<4, "middle">>, <<5, "middle">>, <<5, "right">>}

\* A cursor frame's pointer x relative to the left edge of the timeline area
\* (RectWidth px wide; the pointer may be outside it), and where the scroll
\* position is then.
CursorFrames == {<<5, "middle">>, <<-3, "left">>, <<13, "right">>}

\* The pointer's position across the timeline area taken as it is.
xPercentUnclamped(x) == (x * 100) \div RectWidth

\* Math.max(0, Math.min(1, (clientX - rect.left) / rect.width)), in percent.
xPercent(x) ==
  LET raw == (x * 100) \div RectWidth
  IN  IF raw < 0 THEN 0 ELSE IF raw > 100 THEN 100 ELSE raw

\* Scroll positions at which onGanttScroll has something to do.
ScrollGeoms == {"right", "left"}

\* onTimelineMouseDown, with what it keeps for panning.
onTimelineMouseDown(workCenterId, x) ==
  /\ TimelineMouseDown(workCenterId, x)
  /\ panStartX' = x
  /\ panStartViewportStart' = viewportStart
  /\ lastEvent' = Event("down", x, "middle", 0)
  /\ UNCHANGED <<now, timeScale, viewportStart, viewportEnd, cursorDate,
                 isLoadingMore, syncPending>>

\* onCursorMouseDown.
onCursorMouseDown ==
  /\ CursorMouseDown
  /\ lastEvent' = Quiet
  /\ UNCHANGED <<now, timeScale, viewportStart, viewportEnd, cursorDate,
                 isLoadingMore, panStartX, panStartViewportStart, syncPending>>

\* onTimelineMouseMove with no gesture flag set.
onTimelineMouseMove(x) ==
  /\ IdleMouseMove(x, TRUE)
  /\ lastEvent' = Quiet
  /\ UNCHANGED <<now, timeScale, viewportStart, viewportEnd, cursorDate,
                 isLoadingMore, panStartX, panStartViewportStart, syncPending>>

\* The isPanning branch with the viewport end left where the pan started.
PanFrameEndFixed(x, geom) ==
  /\ PanMove
  /\ LET dx == x - panStartX
         deltaMs == (dx * totalSpanMs) \div RectWidth
         newStart == panStartViewportStart - deltaMs
         newEnd == panStartViewportStart + totalSpanMs
         r == checkInfiniteScroll(newStart, newEnd, isLoadingMore, geom)
     IN  /\ ViewInBounds(r.start, r.end)
         /\ viewportStart' = r.start
         /\ viewportEnd' = r.end
         /\ isLoadingMore' = r.loading
         /\ MoreViewEvents
         /\ lastEvent' = Scheduled(Counted("pan", dx, geom,
                                           MaxOf({lastEvent.peak, Abs(dx)})),
                                   r.loading, "gesture")
  /\ UNCHANGED <<now, timeScale, cursorDate, panStartX, panStartViewportStart,
                 syncPending>>

\* onGlobalMouseMove, isPanning branch: the viewport is put at the pan's start
\* minus the pointer displacement mapped to time, keeping the span; then
\* checkInfiniteScroll runs.
PanFrame(x, geom) ==
  /\ PanMove
  /\ LET dx == x - panStartX
         deltaMs == (dx * totalSpanMs) \div RectWidth
         newStart == panStartViewportStart - deltaMs
         newEnd == newStart + totalSpanMs
         r == checkInfiniteScroll(newStart, newEnd, isLoadingMore, geom)
     IN  /\ ViewInBounds(r.start, r.end)
         /\ viewportStart' = r.start
         /\ viewportEnd' = r.end
         /\ isLoadingMore' = r.loading
         /\ MoreViewEvents
         /\ lastEvent' = Scheduled(Counted("pan", dx, geom,
                                           MaxOf({lastEvent.peak, Abs(dx)})),
                                   r.loading, "gesture")
  /\ UNCHANGED <<now, timeScale, cursorDate, panStartX, panStartViewportStart,
                 syncPending>>

\* onGlobalMouseMove, cursorDragging branch: handleDragAutoScroll may run
\* checkInfiniteScroll, then the cursor is put under the pointer, clamped to
\* the timeline area.
CursorFrame(x, geom) ==
  /\ CursorDragMove
  /\ LET r == checkInfiniteScroll(viewportStart, viewportEnd, isLoadingMore, geom)
         newTime == r.start + (xPercent(x) * (r.end - r.start)) \div 100
     IN  /\ ViewInBounds(newTime, newTime)
         /\ viewportStart' = r.start
         /\ viewportEnd' = r.end
         /\ isLoadingMore' = r.loading
         /\ cursorDate' = Some(newTime)
  /\ MoreViewEvents
  /\ lastEvent' = Scheduled(Counted("cursor", x, geom, lastEvent.peak),
                            isLoadingMore', "gesture")
  /\ UNCHANGED <<now, timeScale, panStartX, panStartViewportStart, syncPending>>

\* mouseup over a track: onTimelineMouseUp, then onGlobalMouseUp.
onTimelineMouseUp(workCenterId, x) ==
  /\ TimelineMouseUp(workCenterId, x)
  /\ lastEvent' = Event("up", 0, "middle", 0)
  /\ UNCHANGED <<now, timeScale, viewportStart, viewportEnd, cursorDate,
                 isLoadingMore, panStartX, panStartViewportStart, syncPending>>

\* mouseup elsewhere: onGlobalMouseUp.
onGlobalMouseUp ==
  /\ GlobalMouseUp
  /\ lastEvent' = Quiet
  /\ UNCHANGED <<now, timeScale, viewportStart, viewportEnd, cursorDate,
                 isLoadingMore, panStartX, panStartViewportStart, syncPending>>

\* The Escape key: the only keydown.escape listener is the panel's
\* onEscapeKey, which exists while a panel is open and dismisses it; the
\* timeline component has no key listener.
onEscapeKey ==
  /\ panel' = Null
  /\ lastFrame' = Null
  /\ lastEvent' = Seen("escape")
  /\ UNCHANGED <<zone, workOrders, nextId, statusFilter, dragState, isPanning,
                 cursorDragging, didDrag, mouseDownPos, mouseDownWorkCenterId,
                 query, dataSource, ranging, netVars>>
  /\ UNCHANGED <<now, timeScale, viewportStart, viewportEnd, cursorDate,
                 isLoadingMore, panStartX, panStartViewportStart, syncPending>>

\* forceHeaderRefresh with the viewport start put on the scale's boundary.
forceHeaderRefreshAligned ==
  /\ viewportStart' = floorToScale(zone, timeScale, viewportStart)
  /\ viewportEnd' = viewportEnd
  /\ lastEvent' = Seen("refresh")
  /\ UNCHANGED <<now, timeScale, cursorDate, isLoadingMore, panStartX,
                 panStartViewportStart, syncPending>>
  /\ UNCHANGED <<zone, workOrders, nextId, statusFilter, dragState, isPanning,
                 cursorDragging, didDrag, mouseDownPos, mouseDownWorkCenterId,
                 panel, lastFrame, query, dataSource, ranging, netVars>>

\* forceHeaderRefresh: both viewport signals are written with a new Date of
\* the instant they hold, which makes the header, the bars, the cursor's
\* period and the active orders compute again.
forceHeaderRefresh ==
  /\ viewportStart' = viewportStart
  /\ viewportEnd' = viewportEnd
  /\ lastEvent' = Seen("refresh")
  /\ UNCHANGED <<now, timeScale, cursorDate, isLoadingMore, panStartX,
                 panStartViewportStart, syncPending>>
  /\ UNCHANGED <<zone, workOrders, nextId, statusFilter, dragState, isPanning,
                 cursorDragging, didDrag, mouseDownPos, mouseDownWorkCenterId,
                 panel, lastFrame, query, dataSource, ranging, netVars>>

\* ---------------------------------------------------- the viewport session
\* Collections the store has loaded when the component is constructed.
LoadedOrders ==
  { <<>>,
    << Order(1, "wc-1", "open", 2, 3), Order(2, "wc-2", "open", 1, 2) >>,
    << Order(1, "wc-1", "open", 0, 40), Order(2, "wc-2", "open", 1, 2) >> }

\* The zones a viewport session is followed in.
ViewZones == {z \in Zones : z.name \in {"UTC", "fallback"}}

ViewInit ==
  /\ zone \in ViewZones
  /\ workOrders \in LoadedOrders
  /\ nextId = Len(workOrders) + 1
  /\ statusFilter = "all"
  /\ dragState = Null
  /\ isPanning = FALSE
  /\ cursorDragging = FALSE
  /\ didDrag = FALSE
  /\ mouseDownPos = Null
  /\ mouseDownWorkCenterId = Null
  /\ panel = Null
  /\ lastFrame = Null
  /\ query = NoQuery
  /\ dataSource = "local"
  /\ ranging = NotRanging
  /\ NetQuiet
  /\ now \in Nows
  /\ ViewConstructed

ViewNext ==
  \/ SyncData
  \/ FitToData
  \/ \E scale \in {"Day", "Week", "Month"} : TimeScaleChange(scale)
  \/ CenterOnToday
  \/ \E geom \in ScrollGeoms : GanttScroll(geom)
  \/ LoadingTimer
  \/ \E x \in PointerDownXs : onTimelineMouseDown("wc-1", x)
  \/ onCursorMouseDown
  \/ \E x \in PointerXs : onTimelineMouseMove(x)
  \/ \E f \in PanFrames : PanFrame(f[1], f[2])
  \/ \E f \in CursorFrames : CursorFrame(f[1], f[2])
  \/ \E x \in PointerXs : onTimelineMouseUp("wc-1", x)
  \/ onGlobalMouseUp
  \/ onEscapeKey
  \/ forceHeaderRefresh

ViewSpec == ViewInit /\ [][ViewNext]_vars

\* The same session with the event loop running its timers: a reset of
\* isLoadingMore that was scheduled does fire.
ViewLiveSpec == ViewInit /\ [][ViewNext]_vars /\ WF_vars(LoadingTimer)

\* ------------------------------------------------ getInterval(scale).range
\* The instants (hours) range is called with: on and off the boundaries, on
\* both sides of the daylight-saving transition, up to past the first month.
RangeInstants == {-30, 0, 9, 24, 30, 33, 72, 200, 744, 760}

\* range(start, end) is entered: current = floorToScale(start), dates = [].
RangeCall(scale, start, end) ==
  /\ ranging.pc # "loop"
  /\ ranging' = [pc |-> "loop", scale |-> scale, start |-> start, end |-> end,
                 current |-> floorToScale(zone, scale, start), dates |-> <<>>]
  /\ UNCHANGED <<zone, workOrders, nextId, statusFilter, dragState, isPanning,
                 cursorDragging, didDrag, mouseDownPos, mouseDownWorkCenterId,
                 panel, lastFrame, query, dataSource, netVars>>
  /\ UNCHANGED viewVars

\* A variant of the loop that also takes the turn at current = end.
RangeStepInclusive ==
  /\ ranging.pc = "loop"
  /\ ranging' =
       IF ranging.current <= ranging.end
       THEN [ranging EXCEPT !.dates = Append(@, ranging.current),
                            !.current = plusUnit(zone, ranging.scale, @)]
       ELSE [ranging EXCEPT !.pc = "done"]
  /\ UNCHANGED <<zone, workOrders, nextId, statusFilter, dragState, isPanning,
                 cursorDragging, didDrag, mouseDownPos, mouseDownWorkCenterId,
                 panel, lastFrame, query, dataSource, netVars>>
  /\ UNCHANGED viewVars

\* One turn of `while (current < endDt)`: push current and add one unit, or
\* leave the loop and return dates.
RangeStep ==
  /\ ranging.pc = "loop"
  /\ ranging' =
       IF ranging.current < ranging.end
       THEN [ranging EXCEPT !.dates = Append(@, ranging.current),
                            !.current = plusUnit(zone, ranging.scale, @)]
       ELSE [ranging EXCEPT !.pc = "done"]
  /\ UNCHANGED <<zone, workOrders, nextId, statusFilter, dragState, isPanning,
                 cursorDragging, didDrag, mouseDownPos, mouseDownWorkCenterId,
                 panel, lastFrame, query, dataSource, netVars>>
  /\ UNCHANGED viewVars

RangeInit ==
  /\ zone \in Zones
  /\ workOrders = <<>>
  /\ nextId = 1
  /\ statusFilter = "all"
  /\ dragState = Null
  /\ isPanning = FALSE
  /\ cursorDragging = FALSE
  /\ didDrag = FALSE
  /\ mouseDownPos = Null
  /\ mouseDownWorkCenterId = Null
  /\ panel = Null
  /\ lastFrame = Null
  /\ query = NoQuery
  /\ dataSource = "local"
  /\ ranging = NotRanging
  /\ NetQuiet
  /\ now \in Nows
  /\ ViewConstructed

RangeNext ==
  \/ \E scale \in {"Day", "Week", "Month"}, start \in RangeInstants,
        end \in RangeInstants : RangeCall(scale, start, end)
  \/ RangeStep

\* The loop is synchronous: once entered it keeps taking its turns.
RangeSpec == RangeInit /\ [][RangeNext]_vars /\ WF_vars(RangeStep)

\* ------------------------------------- the cursor's period and its orders
\* A position in percent of the viewport's width, kept as an exact fraction
\* num / den with den > 0.
Frac(num, den) == [num |-> num, den |-> den]

FracLeq(a, b) ==
  IF a.den = b.den THEN a.num <= b.num
  ELSE a.num * b.den <= b.num * a.den

\* The sum of two positions over the same denominator (or of whole numbers).
FracAdd(a, b) ==
  IF a.den = b.den THEN Frac(a.num + b.num, a.den)
  ELSE Frac(a.num * b.den + b.num * a.den, a.den * b.den)

calculateBarLeft(order, viewportStartMs, span) ==
  IF span <= 0 THEN Frac(0, 1)
  ELSE Frac((ParseIso(order.startDate) - viewportStartMs) * 100, span)

calculateBarWidth(order, span) ==
  IF span <= 0 THEN Frac(0, 1)
  ELSE Frac((ParseIso(order.endDate) - ParseIso(order.startDate)) * 100, span)

calculateCursorPositionPercent(cursor, start, end) ==
  IF cursor = Null THEN Frac(-10, 1)
  ELSE IF end - start <= 0 THEN Frac(0, 1)
  ELSE Frac((cursor[1] - start) * 100, end - start)

cursorPositionPercent ==
  calculateCursorPositionPercent(cursorDate, viewportStart, viewportEnd)

\* A variant of the interval that ends where it starts.
selectedIntervalEmpty ==
  IF cursorDate = Null THEN Null
  ELSE LET start == intervalFloor(zone, timeScale, cursorDate[1])
       IN  Some([start |-> start, end |-> intervalOffset(zone, timeScale, start, 0)])

\* The calendar interval (day, week or month) that holds the cursor date.
selectedInterval ==
  IF cursorDate = Null THEN Null
  ELSE LET start == intervalFloor(zone, timeScale, cursorDate[1])
       IN  Some([start |-> start, end |-> intervalOffset(zone, timeScale, start, 1)])

\* Array#sort with (a, b) => start(b) - start(a): start date descending,
\* orders of equal start in the order they had (the sort is stable).
RECURSIVE SortByStartDesc(_)
SortByStartDesc(orders) ==
  IF orders = <<>> THEN <<>>
  ELSE LET last == orders[Len(orders)]
           rest == SortByStartDesc(SubSeq(orders, 1, Len(orders) - 1))
           before == SelectSeq(rest, LAMBDA o : ParseIso(o.startDate) >= ParseIso(last.startDate))
           after == SelectSeq(rest, LAMBDA o : ParseIso(o.startDate) < ParseIso(last.startDate))
       IN  before \o <<last>> \o after

\* The orders whose bar the cursor line crosses, left in collection order.
activeOrdersAtCursorUnsorted ==
  LET curPercent == cursorPositionPercent
      start == viewportStart
      span == totalSpanMs
  IN  IF ~FracLeq(Frac(0, 1), curPercent) \/ ~FracLeq(curPercent, Frac(100, 1))
      THEN <<>>
      ELSE SelectSeq(filteredWorkOrders,
                     LAMBDA order :
                       LET left == calculateBarLeft(order, start, span)
                           width == calculateBarWidth(order, span)
                       IN  /\ FracLeq(left, curPercent)
                           /\ FracLeq(curPercent, FracAdd(left, width)))

\* The orders whose bar the cursor line crosses.
activeOrdersAtCursor ==
  LET curPercent == cursorPositionPercent
      start == viewportStart
      span == totalSpanMs
  IN  IF ~FracLeq(Frac(0, 1), curPercent) \/ ~FracLeq(curPercent, Frac(100, 1))
      THEN <<>>
      ELSE SortByStartDesc(
             SelectSeq(filteredWorkOrders,
                       LAMBDA order :
                         LET left == calculateBarLeft(order, start, span)
                             width == calculateBarWidth(order, span)
                         IN  /\ FracLeq(left, curPercent)
                             /\ FracLeq(curPercent, FracAdd(left, width))))

\* ================================================================ claims
SameCenterPairs ==
  {p \in (1..Len(workOrders)) \X (1..Len(workOrders)) :
     /\ p[1] # p[2]
     /\ workOrders[p[1]].workCenterId = workOrders[p[2]].workCenterId}

Overlapping(a, b) == a.startDate < b.endDate /\ a.endDate > b.startDate

FrameSeen == lastFrame # Null /\ dragState # Null /\ lastFrame[1].found

Conflicts(q) ==
  {i \in 1..Len(workOrders) :
     /\ workOrders[i].workCenterId = q.workCenterId
     /\ Some(workOrders[i].docId) # q.excludeDocId
     /\ workOrders[i].startDate < q.endDate
     /\ workOrders[i].endDate > q.startDate}

\* C2: checkOverlap(center, s, e, excludeId) reports a conflict iff some stored
\* order on that center, other than excludeId, has start < e and end > s; a
\* range that only touches an order, or an order on another center, is never
\* reported.
C2_OverlapIff ==
  query.check # Null =>
    LET q == query.check[1]
    IN  /\ (q.result # Null) <=> (Conflicts(q) # {})
        /\ q.result # Null =>
             /\ q.result[1].workCenterId = q.workCenterId
             /\ Some(q.result[1].docId) # q.excludeDocId
             /\ q.result[1].startDate < q.endDate
             /\ q.result[1].endDate > q.startDate

\* C2 witness: a query whose range starts exactly where a stored order on the
\* same center ends, answered with no conflict.
C2_Witness ==
  /\ query.check # Null
  /\ LET q == query.check[1]
     IN  /\ q.result = Null
         /\ q.startDate < q.endDate
         /\ \E i \in 1..Len(workOrders) :
              /\ workOrders[i].workCenterId = q.workCenterId
              /\ Some(workOrders[i].docId) # q.excludeDocId
              /\ workOrders[i].startDate < workOrders[i].endDate
              /\ workOrders[i].endDate = q.startDate

\* C3: a drag frame whose candidate range conflicts with another order, or (for
\* a resize) whose candidate would make start >= end, is rejected: the store's
\* update is not called for that frame and the order stays where it was.
C3_RejectedFrame ==
  (FrameSeen /\ (lastFrame[1].overlap \/ lastFrame[1].shape # "ok"))
    => (~lastFrame[1].updated /\ ~lastFrame[1].changed)

\* C4: while an order's right edge is dragged (resize-end), a frame whose
\* snapped candidate end precedes the order's start leaves the stored orders
\* as they were, and so does the pointer-up that ends the gesture.
C4_InvertedResizeEnd ==
  [][ (/\ dragState # Null
       /\ dragState[1].mode = "resize-end"
       /\ \/ dragState' = Null
          \/ /\ lastFrame' # Null
             /\ lastFrame'[1].found
             /\ lastFrame'[1].shape = "inverted")
      => workOrders' = workOrders ]_vars

\* C4 witness: such a frame has been handled.
C4_Witness ==
  /\ FrameSeen /\ dragState[1].mode = "resize-end"
  /\ lastFrame[1].shape = "inverted"
  /\ ~lastFrame[1].changed

\* C5: every stored work order has start < end in every reachable state.
C5_StartBeforeEnd ==
  \A i \in 1..Len(workOrders) : workOrders[i].startDate < workOrders[i].endDate

\* C6 as stated: for every stored order a, checkOverlap on a's own work center
\* and exact range with excludeId = a.id returns null.
C6_SelfExcluded ==
  \A i \in 1..Len(workOrders) :
    checkOverlap(workOrders, workOrders[i].workCenterId, workOrders[i].startDate,
                 workOrders[i].endDate, Some(workOrders[i].docId)) = Null

\* C6 amended: checkOverlap on a's own range with excludeId = a.id never
\* returns a itself, and returns null whenever no other stored order on a's
\* center overlaps a's range.
C6_SelfNeverReported ==
  \A i \in 1..Len(workOrders) :
    LET a == workOrders[i]
        r == checkOverlap(workOrders, a.workCenterId, a.startDate, a.endDate,
                          Some(a.docId))
    IN  /\ r # Null => r[1].docId # a.docId
        /\ (\A j \in 1..Len(workOrders) :
              (workOrders[j].docId # a.docId
                 /\ workOrders[j].workCenterId = a.workCenterId)
                => ~Overlapping(a, workOrders[j]))
             => r = Null

\* C6 witness: two orders of positive length that touch on one work center
\* have been added, so the self-excluding query of each returns null.
C6_Witness ==
  /\ Len(workOrders) = 2 /\ query.added # Null
  /\ workOrders[1].workCenterId = workOrders[2].workCenterId
  /\ workOrders[1].startDate < workOrders[1].endDate
  /\ workOrders[1].endDate = workOrders[2].startDate
  /\ workOrders[2].startDate < workOrders[2].endDate

\* The orders, other than the one just added, that the order just added
\* engulfs: same center, positive length, inside the new order's range.
Engulfed ==
  IF query.added = Null \/ workOrders = <<>> THEN {}
  ELSE {i \in 1..Len(workOrders) :
          \E n \in 1..Len(workOrders) :
            /\ workOrders[n].docId = query.added[1]
            /\ i # n
            /\ workOrders[i].workCenterId = workOrders[n].workCenterId
            /\ workOrders[i].startDate < workOrders[i].endDate
            /\ workOrders[n].startDate <= workOrders[i].startDate
            /\ workOrders[i].endDate <= workOrders[n].endDate}

\* The query is about exactly the range of stored order i on its center.
QueryOnRangeOf(q, i) ==
  /\ q.workCenterId = workOrders[i].workCenterId
  /\ q.startDate = workOrders[i].startDate
  /\ q.endDate = workOrders[i].endDate

C8_FirstInInsertionOrder ==
  query.check # Null =>
    LET q == query.check[1]
        hits == Conflicts(q)
    IN  IF hits = {} THEN q.result = Null
        ELSE q.result = Some(workOrders[CHOOSE j \in hits : \A k \in hits : j <= k])

\* C8 witness: a query with two conflicting orders answered with the one that
\* was inserted first.
C8_Witness ==
  /\ query.check # Null
  /\ Cardinality(Conflicts(query.check[1])) >= 2
  /\ query.check[1].result = Some(workOrders[1])
  /\ workOrders[1].docId = 1

\* C9: a drag in move mode preserves the order's duration: the stored range
\* after an applied frame has end - start equal to the original end - start.
C9_MovePreservesDuration ==
  (FrameSeen /\ dragState[1].mode = "move" /\ lastFrame[1].updated) =>
    \A i \in 1..Len(workOrders) :
      workOrders[i].docId = dragState[1].orderId =>
        ParseIso(workOrders[i].endDate) - ParseIso(workOrders[i].startDate)
          = dragState[1].originalEnd - dragState[1].originalStart

\* C10: Panning, CursorDragging and BarDragging are mutually exclusive: at most
\* one of isPanning, cursorDragging and dragState is active, under any order of
\* the handled events.
C10_MutuallyExclusive ==
  /\ ~(isPanning /\ cursorDragging)
  /\ ~(isPanning /\ dragState # Null)
  /\ ~(cursorDragging /\ dragState # Null)

\* C11: after a pointer-down on an empty track, pointer moves whose
\* displacement stays below DRAG_THRESHOLD do not pan: a pan frame of a gesture
\* whose displacement has not reached the threshold leaves the viewport
\* unchanged.
C11_BelowThresholdNoPan ==
  [][(lastEvent'.kind = "pan" /\ lastEvent'.peak < DRAG_THRESHOLD) =>
       UNCHANGED <<viewportStart, viewportEnd>>]_vars

\* C12: a create request is emitted only by a pointer-up that ends a gesture
\* which never entered Panning: a step that opens the create panel ends a
\* gesture whose pointer displacement never reached DRAG_THRESHOLD.
C12_NoCreateAfterPanning ==
  [][(panel = Null /\ panel' # Null /\ panel'[1].mode = "create") =>
       lastEvent.peak < DRAG_THRESHOLD]_vars

C14_EscapeReturnsToIdle ==
  [][lastEvent'.kind = "escape" => NoGesture']_vars

\* C15: the viewport satisfies start < end in every reachable state, the
\* state before any data is loaded included.
C15_ViewportStartBeforeEnd == viewportStart < viewportEnd

EarliestLoaded ==
  MinOf({ParseIso(workOrders[i].startDate) : i \in 1..Len(workOrders)})

LatestLoaded ==
  MaxOf({ParseIso(workOrders[i].endDate) : i \in 1..Len(workOrders)})

C19_EmptyFitCentersOnNow ==
  (lastEvent.kind = "fit" /\ filteredWorkOrders = <<>> /\ timeScale = "Day") =>
    /\ viewportStart =
         intervalOffset(zone, "Day", intervalFloor(zone, "Day", now), -1)
    /\ viewportStart <= now
    /\ now < viewportEnd

\* The anchor of a zoom: the cursor, or now without one.
ZoomAnchor == IF cursorDate = Null THEN now ELSE cursorDate[1]

\* C20: a change of the time scale sets the scale, leaves the cursor where it
\* was, and replaces the window by the one centered on the cursor (or on now
\* without a cursor): start = floor(anchor - k units) and end =
\* ceil(anchor + k units) with k = 10, 5, 6 for Day, Week, Month, both on
\* boundaries of the new scale, and start <= anchor < end.
C20_ZoomCentersOnCursor ==
  [][lastEvent'.kind = "zoom" =>
       LET scale == timeScale'
           k == CASE scale = "Day" -> 10 [] scale = "Week" -> 5
                  [] scale = "Month" -> 6
           low == intervalOffset(zone, scale, ZoomAnchor, 0 - k)
           high == intervalOffset(zone, scale, ZoomAnchor, k)
       IN  /\ scale \in {"Day", "Week", "Month"}
           /\ cursorDate' = Some(ZoomAnchor)
           /\ cursorDate # Null => cursorDate' = cursorDate
           /\ viewportStart' = intervalFloor(zone, scale, low)
           /\ viewportEnd' = intervalCeil(zone, scale, high)
           /\ intervalFloor(zone, scale, viewportStart') = viewportStart'
           /\ intervalFloor(zone, scale, viewportEnd') = viewportEnd'
           /\ viewportStart' <= low /\ high <= viewportEnd'
           /\ viewportStart' <= ZoomAnchor /\ ZoomAnchor < viewportEnd']_vars

\* The scale has been changed to Month with the cursor away from now and off
\* the month boundaries.
C20_Witness ==
  /\ lastEvent.kind = "zoom"
  /\ timeScale = "Month"
  /\ cursorDate # Null
  /\ cursorDate[1] # now
  /\ intervalFloor(zone, "Month", cursorDate[1]) # cursorDate[1]
  /\ viewportStart < cursorDate[1]
  /\ cursorDate[1] < viewportEnd

\* C21: during a cursor drag every pointer-move puts the cursor inside the
\* viewport as the event leaves it, viewportStart <= cursor <= viewportEnd,
\* wherever the pointer is.
C21_CursorClampedToViewport ==
  [][lastEvent'.kind = "cursor" =>
       /\ cursorDate' # Null
       /\ viewportStart' <= cursorDate'[1]
       /\ cursorDate'[1] <= viewportEnd']_vars

\* A cursor frame with the pointer right of the timeline area has put the
\* cursor on the end of a viewport of positive span.
C21_Witness ==
  /\ lastEvent.kind = "cursor"
  /\ lastEvent.x > RectWidth
  /\ cursorDragging
  /\ viewportStart < viewportEnd
  /\ cursorDate = Some(viewportEnd)

\* The docIds of the orders of a collection.
IdsOf(orders) == {orders[i].docId : i \in 1..Len(orders)}

\* The step appends exactly one order carrying data, with an id no order had,
\* after the orders that were there, which stay as they were.
AppendsOne(data) ==
  /\ Len(workOrders') = Len(workOrders) + 1
  /\ SubSeq(workOrders', 1, Len(workOrders)) = workOrders
  /\ LET created == workOrders'[Len(workOrders')]
     IN  /\ created.docId \notin IdsOf(workOrders)
         /\ Data(created.workCenterId, created.status,
                 created.startDate, created.endDate) = data

C23_UnknownIdIsNoOp ==
  [][\A id \in DocIds :
       (/\ id \notin IdsOf(workOrders)
        /\ \/ StoreDelete(id)
           \/ \E data \in StoreData : StoreUpdate(id, data))
       => (workOrders' = workOrders /\ query'.api = Null)]_vars

\* The collection without its k-th order.
WithoutAt(orders, k) == SubSeq(orders, 1, k - 1) \o SubSeq(orders, k + 1, Len(orders))

C25_UpdateIdempotent ==
  [][\A id \in DocIds, data \in StoreData :
       StoreUpdate(id, data) =>
         /\ updateWorkOrder(workOrders', id, data) = workOrders'
         /\ [NoQuery EXCEPT !.api = ApiRequest("update", id)] = query']_vars

\* An update has been issued for the second of two stored orders and has
\* given it a range that differs from the first order's.
C25_Witness ==
  /\ query.api = Some([op |-> "update", docId |-> 2])
  /\ Len(workOrders) = 2
  /\ workOrders[2].docId = 2
  /\ workOrders[2].startDate # workOrders[1].startDate

\* The starts of a sequence of orders never increase.
StartsDescend(orders) ==
  \A i \in 1..Len(orders) - 1 :
    ParseIso(orders[i].startDate) >= ParseIso(orders[i + 1].startDate)

\* The orders of a sequence, as a set.
Listed(orders) == {orders[i] : i \in 1..Len(orders)}

\* The orders whose range overlaps the cursor's period under the half-open
\* rule order.start < period.end and order.end > period.start.
OverlapPeriod ==
  IF selectedInterval = Null THEN {}
  ELSE {o \in Listed(filteredWorkOrders) :
          /\ ParseIso(o.startDate) < selectedInterval[1].end
          /\ ParseIso(o.endDate) > selectedInterval[1].start}

PeriodProbes == (0..(MaxDay * HoursPerDay)) \cup (735..750)

TimeScales == {"Day", "Week", "Month"}

\* C27: for every cursor date d and scale the cursor's period is
\* (floor(d), offset(floor(d), 1)) and holds the cursor:
\* floor(d) <= d < offset(floor(d), 1).
C27_PeriodContainsCursor ==
  /\ cursorDate # Null =>
       /\ selectedInterval # Null
       /\ selectedInterval[1].start = intervalFloor(zone, timeScale, cursorDate[1])
       /\ selectedInterval[1].end =
            intervalOffset(zone, timeScale,
                           intervalFloor(zone, timeScale, cursorDate[1]), 1)
       /\ selectedInterval[1].start <= cursorDate[1]
       /\ cursorDate[1] < selectedInterval[1].end
  /\ lastEvent.n = 0 =>
       \A d \in PeriodProbes, scale \in TimeScales :
         LET start == intervalFloor(zone, scale, d)
         IN  start <= d /\ d < intervalOffset(zone, scale, start, 1)

\* In the zone with a daylight-saving transition the cursor stands inside a
\* month, off its first instant.
C27_Witness ==
  /\ zone.before # zone.after
  /\ timeScale = "Month"
  /\ cursorDate # Null
  /\ selectedInterval # Null
  /\ selectedInterval[1].start < cursorDate[1]
  /\ viewportStart < viewportEnd

\* The grid boundaries of a scale from floor(start) up to, not including, end.
GridBoundaries(z, scale, start, end) ==
  {b \in floorToScale(z, scale, start)..(end - 1) : floorToScale(z, scale, b) = b}

\* The dates returned are exactly the grid boundaries b with
\* floor(start) <= b < end, each once, in ascending order.
RangeIsGrid ==
  /\ \A i \in 1..Len(ranging.dates) - 1 : ranging.dates[i] < ranging.dates[i + 1]
  /\ {ranging.dates[i] : i \in 1..Len(ranging.dates)} =
       GridBoundaries(zone, ranging.scale, ranging.start, ranging.end)
  /\ ranging.end <= floorToScale(zone, ranging.scale, ranging.start)
       => ranging.dates = <<>>

\* C28: range(start, end) terminates, and what it returns is exactly the grid
\* boundaries b with floor(start) <= b < end in ascending order, nothing when
\* end <= floor(start).
C28_RangeTerminatesOnGrid ==
  /\ [](ranging.pc = "done" => RangeIsGrid)
  /\ (ranging.pc = "loop") ~> (ranging.pc = "done")

\* In the zone with a daylight-saving transition a call at Day scale with a
\* start off the grid has returned several dates, the first before start.
C28_Witness ==
  /\ ranging.pc = "done"
  /\ zone.before # zone.after
  /\ ranging.scale = "Day"
  /\ Len(ranging.dates) > 2
  /\ ranging.dates[1] < ranging.start

\* The stored orders a submitted range collides with: on the panel's work
\* center, other than the order being edited, overlapping [startDay, endDay).
Colliding(p, startDay, endDay) ==
  {o \in Listed(workOrders) :
     /\ o.workCenterId = p.workCenterId
     /\ (p.mode = "edit" => Some(o.docId) # p.docId)
     /\ ParseIso(startDay) < ParseIso(o.endDate)
     /\ ParseIso(endDay) > ParseIso(o.startDate)}

\* The form is valid: the name is given and the end date is after the start.
FormValid(nameGiven, startDay, endDay) == nameGiven /\ endDay > startDay

C30_InvalidFormDoesNothing ==
  [][\A n \in BOOLEAN, st \in Statuses, s \in Days, e \in Days :
       (PanelSubmit(n, st, s, e) /\ ~FormValid(n, s, e)) =>
         /\ lastFrame'[1].shape = "submit-invalid"
         /\ ~lastFrame'[1].overlap /\ ~lastFrame'[1].updated
         /\ panel' # Null
         /\ panel'[1].overlapError = panel[1].overlapError
         /\ workOrders' = workOrders
         /\ nextId' = nextId]_vars

\* An invalid form has been submitted on a panel that stays open: submitted
\* is set, no message, the store holding an order.
C30_Witness ==
  /\ panel # Null
  /\ panel[1].submitted
  /\ panel[1].overlapError = Null
  /\ lastFrame = Submitted("submit-invalid", FALSE, FALSE, FALSE)
  /\ workOrders # <<>>

\* ------------------------------------------- the store and its persistence
\* The store with what it persists to: localStorage in local mode, the
\* server's orders file behind the ApiService in server mode. A request is
\* first sent, then answered by the server or failed by the network, and
\* the answer is then delivered to its subscriber in the store.
MaxInflight == 2
MaxNetOps == 4

\* getDefaultWorkOrders(): the sample orders of a first visit.
DefaultId == 0
getDefaultWorkOrders == <<Order(DefaultId, "wc-1", "open", 0, 1)>>

\* The orders the application can name in a call: those it shows.
Shown == {workOrders[i].docId : i \in 1..Len(workOrders)}
NetData == {Data("wc-1", "open", 0, 1), Data("wc-1", "open", 2, 3)}

\* JSON.stringify of the collection and JSON.parse of the stored text.
stringify(orders) == [json |-> orders]
parse(text) == text.json

\* A request on the wire: tag tells two requests of one kind apart.
Request(tag, op, docId, body) ==
  [tag |-> tag, op |-> op, docId |-> docId, body |-> body,
   stage |-> "sent", ok |-> TRUE]

FreeTags == (1..MaxInflight) \ {m.tag : m \in inflight}

\* http.get/post/put/delete: the request leaves with a tag no other has.
Send(op, docId, body) ==
  /\ FreeTags # {}
  /\ inflight' = inflight \cup
       {Request(CHOOSE t \in FreeTags : \A u \in FreeTags : t <= u, op, docId, body)}

\* What a store mutator does after patching: the api call in server mode.
SendIfServer(op, docId, body) ==
  IF dataSource = "server" THEN Send(op, docId, body) ELSE UNCHANGED inflight

\* A variant of setDataSource's subscriber that drops a late list.
ListArrivesGuarded(orders) ==
  IF dataSource = "server" THEN orders ELSE workOrders

\* setDataSource's subscriber: patchState({workOrders: orders}).
ListArrives(orders) == orders

\* store.setDataSource(source).
setDataSource(source) ==
  /\ netOps < MaxNetOps
  /\ netOps' = netOps + 1
  /\ dataSource' = source
  /\ IF source = "server"
     THEN /\ isLoading' = TRUE
          /\ Send("list", DefaultId, <<>>)
          /\ UNCHANGED workOrders
          /\ persistPending' = (persistPending \/ dataSource # source)
     ELSE /\ workOrders' = IF stored # Null THEN parse(stored[1]) ELSE workOrders
          /\ persistPending' = (persistPending \/ dataSource # source \/ stored # Null)
          /\ UNCHANGED <<isLoading, inflight>>
  /\ UNCHANGED <<stored, serverFile, uncaught, nextId>>

\* store.addWorkOrder(data), then api.createWorkOrder(newOrder).subscribe().
AddOverNet(data) ==
  /\ netOps < MaxNetOps
  /\ netOps' = netOps + 1
  /\ nextId <= MaxOrders
  /\ workOrders' = addWorkOrder(workOrders, nextId, data)
  /\ nextId' = nextId + 1
  /\ SendIfServer("create", nextId,
                  <<Order(nextId, data.workCenterId, data.status,
                          data.startDate, data.endDate)>>)
  /\ persistPending' = TRUE
  /\ UNCHANGED <<dataSource, isLoading, stored, serverFile, uncaught>>

\* store.updateWorkOrder(docId, data), then api.updateWorkOrder(docId, data).subscribe().
UpdateOverNet(docId, data) ==
  /\ netOps < MaxNetOps
  /\ netOps' = netOps + 1
  /\ workOrders' = updateWorkOrder(workOrders, docId, data)
  /\ SendIfServer("update", docId, <<data>>)
  /\ persistPending' = TRUE
  /\ UNCHANGED <<dataSource, isLoading, stored, serverFile, uncaught, nextId>>

\* store.deleteWorkOrder(docId), then api.deleteWorkOrder(docId).subscribe().
DeleteOverNet(docId) ==
  /\ netOps < MaxNetOps
  /\ netOps' = netOps + 1
  /\ workOrders' = deleteWorkOrder(workOrders, docId)
  /\ SendIfServer("delete", docId, <<>>)
  /\ persistPending' = TRUE
  /\ UNCHANGED <<dataSource, isLoading, stored, serverFile, uncaught, nextId>>

Known(file, docId) == \E i \in 1..Len(file) : file[i].docId = docId

\* The answer to a list, on its way back to setDataSource's subscriber.
Answered(m, ok, body) == [m EXCEPT !.stage = "answered", !.ok = ok, !.body = body]

\* PUT /api/orders/:id: the order's data merged with the body.
ServerPut(file, docId, data) == updateWorkOrder(file, docId, data)

\* GET, POST, PUT or DELETE /api/orders handled by the server. The answer
\* to a list travels back. The answer to a create, update or delete finds
\* a subscriber with no callbacks: a success runs nothing in the store, a
\* 404 is an http error that nothing handles.
ServerHandle(m) ==
  /\ UNCHANGED netOps
  /\ m \in inflight /\ m.stage = "sent"
  /\ CASE m.op = "list" ->
            /\ inflight' = (inflight \ {m}) \cup {Answered(m, TRUE, serverFile)}
            /\ UNCHANGED <<serverFile, uncaught>>
       [] m.op = "create" ->
            /\ inflight' = inflight \ {m}
            /\ serverFile' = Append(serverFile, m.body[1])
            /\ UNCHANGED uncaught
       [] m.op = "update" ->
            /\ inflight' = inflight \ {m}
            /\ serverFile' = ServerPut(serverFile, m.docId, m.body[1])
            /\ uncaught' = (uncaught \/ ~Known(serverFile, m.docId))
       [] m.op = "delete" ->
            /\ inflight' = inflight \ {m}
            /\ serverFile' = deleteWorkOrder(serverFile, m.docId)
            /\ uncaught' = (uncaught \/ ~Known(serverFile, m.docId))
  /\ UNCHANGED <<workOrders, nextId, dataSource, isLoading, stored,
                 persistPending>>

\* A variant of the failing request without getWorkOrders' catchError: the
\* error of a list goes to the subscriber like that of any other call.
RequestFailsUnmapped(m) ==
  /\ UNCHANGED netOps
  /\ m \in inflight /\ m.stage = "sent"
  /\ inflight' = inflight \ {m}
  /\ uncaught' = TRUE
  /\ UNCHANGED <<workOrders, nextId, dataSource, isLoading, stored, serverFile,
                 persistPending>>

\* The server is unreachable: the request comes back as an http error.
\* getWorkOrders maps it to an empty list (catchError); createWorkOrder,
\* updateWorkOrder and deleteWorkOrder pass it on to a subscriber that
\* has no error callback.
RequestFails(m) ==
  /\ UNCHANGED netOps
  /\ m \in inflight /\ m.stage = "sent"
  /\ IF m.op = "list"
     THEN /\ inflight' = (inflight \ {m}) \cup {Answered(m, FALSE, <<>>)}
          /\ UNCHANGED uncaught
     ELSE /\ inflight' = inflight \ {m}
          /\ uncaught' = TRUE
  /\ UNCHANGED <<workOrders, nextId, dataSource, isLoading, stored, serverFile,
                 persistPending>>

\* The list reaches the store: setDataSource's tap, then its subscriber.
Deliver(m) ==
  /\ UNCHANGED netOps
  /\ m \in inflight /\ m.stage = "answered"
  /\ inflight' = inflight \ {m}
  /\ isLoading' = FALSE
  /\ workOrders' = ListArrives(m.body)
  /\ persistPending' = TRUE
  /\ UNCHANGED <<nextId, dataSource, stored, serverFile, uncaught>>

\* The effect of onInit: in local mode the collection goes to localStorage;
\* setItem may throw (quota, storage disabled) and nothing catches it.
PersistEffect(written) ==
  /\ UNCHANGED netOps
  /\ persistPending
  /\ persistPending' = FALSE
  /\ IF dataSource = "local"
     THEN IF written
          THEN stored' = Some(stringify(workOrders)) /\ UNCHANGED uncaught
          ELSE uncaught' = TRUE /\ UNCHANGED stored
     ELSE written /\ UNCHANGED <<stored, uncaught>>
  /\ UNCHANGED <<workOrders, nextId, dataSource, isLoading, serverFile, inflight>>

\* onInit's choice: the stored array if it holds an order, else the samples.
Restored(text) ==
  IF Len(parse(text)) > 0 THEN parse(text) ELSE getDefaultWorkOrders

\* The page is loaded again: initialState, then onInit. The effects of the
\* page that goes away have run; what it still had on the wire is dropped.
Reload ==
  /\ netOps < MaxNetOps
  /\ netOps' = netOps + 1
  /\ ~persistPending
  /\ dataSource' = "local"
  /\ isLoading' = FALSE
  /\ workOrders' = IF stored # Null THEN Restored(stored[1]) ELSE getDefaultWorkOrders
  /\ inflight' = {}
  /\ persistPending' = TRUE
  /\ uncaught' = FALSE
  /\ UNCHANGED <<nextId, stored, serverFile>>

\* What the store's persistence leaves alone.
netFrame == <<zone, statusFilter, dragState, isPanning, cursorDragging, didDrag,
              mouseDownPos, mouseDownWorkCenterId, panel, lastFrame, query,
              ranging, viewVars>>

\* A first visit: nothing in localStorage, onInit has set the samples and
\* scheduled its effect; the server's file is empty or holds order 1, and
\* the ids this page hands out are fresh ones.
NetInit ==
  /\ zone \in {z \in Zones : z.name = "UTC"}
  /\ workOrders = getDefaultWorkOrders
  /\ nextId = 2
  /\ statusFilter = "all"
  /\ dragState = Null
  /\ isPanning = FALSE
  /\ cursorDragging = FALSE
  /\ didDrag = FALSE
  /\ mouseDownPos = Null
  /\ mouseDownWorkCenterId = Null
  /\ panel = Null
  /\ lastFrame = Null
  /\ query = NoQuery
  /\ dataSource = "local"
  /\ ranging = NotRanging
  /\ isLoading = FALSE
  /\ stored = Null
  /\ serverFile \in {<<>>, <<Order(1, "wc-1", "open", 0, 1)>>}
  /\ inflight = {}
  /\ persistPending = TRUE
  /\ uncaught = FALSE
  /\ netOps = 0
  /\ now \in Nows
  /\ ViewConstructed

NetNext ==
  \/ \E source \in DataSources : setDataSource(source) /\ UNCHANGED netFrame
  \/ \E data \in NetData : AddOverNet(data) /\ UNCHANGED netFrame
  \/ \E id \in Shown, data \in NetData : UpdateOverNet(id, data) /\ UNCHANGED netFrame
  \/ \E id \in Shown : DeleteOverNet(id) /\ UNCHANGED netFrame
  \/ \E m \in inflight : ServerHandle(m) /\ UNCHANGED netFrame
  \/ \E m \in inflight : RequestFails(m) /\ UNCHANGED netFrame
  \/ \E m \in inflight : Deliver(m) /\ UNCHANGED netFrame
  \/ \E written \in BOOLEAN : PersistEffect(written) /\ UNCHANGED netFrame
  \/ Reload /\ UNCHANGED netFrame

NetSpec == NetInit /\ [][NetNext]_vars

\* The same with the scheduling the runtime gives: a request sent is
\* answered or fails, and an answer is delivered to its subscriber.
NetFair ==
  /\ WF_vars(\E m \in inflight : ServerHandle(m) /\ UNCHANGED netFrame)
  /\ WF_vars(\E m \in inflight : Deliver(m) /\ UNCHANGED netFrame)

NetLiveSpec == NetInit /\ [][NetNext]_vars /\ NetFair

\* ------------------------------------------------------------ claims 31-40
\* A step at which a persistence call fails: the network fails a request,
\* the server answers not-found, or localStorage.setItem throws.
FailureStep ==
  \/ \E m \in inflight : RequestFails(m)
  \/ \E m \in inflight : ServerHandle(m) /\ m.op # "list" /\ uncaught' /\ ~uncaught
  \/ PersistEffect(FALSE) /\ dataSource = "local"

\* Whatever fails, the collection is the one held before or, for a list
\* that failed, the empty one.
FailuresKeepCollection ==
  [][/\ FailureStep => workOrders' = workOrders
     /\ \A m \in inflight :
          Deliver(m) /\ ~m.ok => workOrders' = <<>> /\ ~isLoading']_vars

\* C31: a failure of a persistence call (list, create, update, delete,
\* localStorage write) never leaves the store as an error nothing handles:
\* every failure is caught, the collection stays or becomes empty.
C31_FailureNeverEscapes == ~uncaught

\* A reload in local mode of a collection that holds an order gives it
\* back, as long as no write to localStorage has failed.
ReloadRestoresNonEmpty ==
  [][Reload /\ dataSource = "local" /\ ~uncaught /\ workOrders # <<>>
       => workOrders' = workOrders]_vars

\* C32: in local mode the data persists across a page reload: after any
\* adds, updates and deletes, the store initialised again from
\* localStorage holds the collection it held before the reload (no write
\* to localStorage having failed).
C32_ReloadRestoresCollection ==
  [][Reload /\ dataSource = "local" /\ ~uncaught => workOrders' = workOrders]_vars

C38_LateListIgnored ==
  [][\A m \in inflight :
       Deliver(m) /\ dataSource = "local" => workOrders' = workOrders]_vars

\* The server's copy of order i of the collection, if it holds one.
ServerCopies(o) == {f \in {serverFile[j] : j \in 1..Len(serverFile)} : f.docId = o.docId}

\* C39: in server mode, once every request has completed and none has
\* failed, the server's copy of every order of the collection equals the
\* copy the client holds in memory.
C39_ServerEqualsClient ==
  (dataSource = "server" /\ inflight = {} /\ ~isLoading /\ ~uncaught)
    => \A i \in 1..Len(workOrders) : ServerCopies(workOrders[i]) = {workOrders[i]}

\* The reset timer of an expansion fires without touching the viewport or
\* the cursor: it only clears isLoadingMore.
TimerOnlyResets ==
  [][LoadingTimer => /\ ~isLoadingMore'
                     /\ UNCHANGED <<viewportStart, viewportEnd, cursorDate>>]_vars

\* C34: releasing the pointer, or Escape, ends the active state at once,
\* and no timer scheduled during the gesture fires once the gesture has
\* ended.
C34_ReleaseEndsGestureAndTimers ==
  [][/\ (onGlobalMouseUp \/ onEscapeKey
           \/ \E x \in PointerXs : onTimelineMouseUp("wc-1", x)) => NoGesture'
     /\ (LoadingTimer /\ lastEvent.timer = "gesture") => ~NoGesture]_vars

\* The same for the timers alone.
GestureTimersDieWithGesture ==
  [][(LoadingTimer /\ lastEvent.timer = "gesture") => ~NoGesture]_vars

StatusFilters == {"all", "open", "complete"}

\* The drag frames and the form dates a session is followed with.
SessionDeltas == {d \in DragDeltas : d \in {0 - HoursPerDay, 0, HoursPerDay}}
SessionStarts == {d \in Days : d \in {0, 2}}
SessionEnds == {d \in Days : d \in {1, 3}}

\* syncDataEffect after a handler: with orders to show, fitToData() and the
\* cursor set to the viewport start.
SyncAfter ==
  LET rerun == \/ filteredWorkOrders' # filteredWorkOrders
               \/ (lastFrame' # Null /\ lastFrame'[1].updated)
      fit == calculateFitToData(zone, filteredWorkOrders', timeScale)
  IN  /\ IF rerun /\ filteredWorkOrders' # <<>>
         THEN /\ viewportStart' = fit[1].start
              /\ viewportEnd' = fit[1].end
              /\ cursorDate' = Some(fit[1].start)
         ELSE UNCHANGED <<viewportStart, viewportEnd, cursorDate>>
      /\ UNCHANGED <<now, timeScale, isLoadingMore, panStartX,
                     panStartViewportStart, syncPending, lastEvent>>

\* onStatusFilterChange(status): store.setStatusFilter(status).
onStatusFilterChange(status) ==
  /\ panel = Null
  /\ NoGesture
  /\ statusFilter' = status
  /\ lastFrame' = Null
  /\ UNCHANGED <<zone, workOrders, nextId, dragState, isPanning, cursorDragging,
                 didDrag, mouseDownPos, mouseDownWorkCenterId, panel, query,
                 dataSource, ranging, netVars>>

\* The component once the store's orders are shown: syncDataEffect has run
\* for the first time, the viewport is fitted and the cursor is on its start.
SessionInit ==
  /\ zone \in {z \in Zones : z.name = "UTC"}
  /\ workOrders = << Order(1, "wc-1", "open", 2, 3) >>
  /\ nextId = Len(workOrders) + 1
  /\ statusFilter = "all"
  /\ dragState = Null
  /\ isPanning = FALSE
  /\ cursorDragging = FALSE
  /\ didDrag = FALSE
  /\ mouseDownPos = Null
  /\ mouseDownWorkCenterId = Null
  /\ panel = Null
  /\ lastFrame = Null
  /\ query = NoQuery
  /\ dataSource = "local"
  /\ ranging = NotRanging
  /\ NetQuiet
  /\ now \in Nows
  /\ timeScale = "Day"
  /\ viewportStart = calculateFitToData(zone, workOrders, "Day")[1].start
  /\ viewportEnd = calculateFitToData(zone, workOrders, "Day")[1].end
  /\ cursorDate = Some(viewportStart)
  /\ isLoadingMore = FALSE
  /\ panStartX = 0
  /\ panStartViewportStart = 0
  /\ syncPending = FALSE
  /\ lastEvent = [kind |-> "none", x |-> 0, geom |-> "middle", peak |-> 0,
                  n |-> 0, timer |-> "none"]

SessionNext ==
  \/ LoadingTimer
  \/ onCursorMouseDown
  \/ \E f \in CursorFrames : CursorFrame(f[1], f[2])
  \/ onGlobalMouseUp
  \/ \E x \in PointerDownXs : onTimelineMouseDown("wc-1", x)
  \/ \E x \in PointerXs : onTimelineMouseUp("wc-1", x)
  \/ (\E i \in 1..MaxOrders : BarMouseDown(i)) /\ SyncAfter
  \/ (\E d \in SessionDeltas : BarDragFrame(d)) /\ SyncAfter
  \/ (\E i \in 1..MaxOrders : MenuEdit(i)) /\ SyncAfter
  \/ (\E i \in 1..MaxOrders : ConfirmDelete(i)) /\ SyncAfter
  \/ (\E n \in BOOLEAN, st \in Statuses, s \in SessionStarts, e \in SessionEnds :
        PanelSubmit(n, st, s, e)) /\ SyncAfter
  \/ PanelDismiss /\ SyncAfter
  \/ (\E status \in StatusFilters : onStatusFilterChange(status)) /\ SyncAfter

SessionSpec == SessionInit /\ [][SessionNext]_vars

\* C36: adding, updating (accepted drag frames included) or deleting an
\* order, and changing the status filter, leave the cursor where it is.
C36_MutationsKeepCursor ==
  [][(workOrders' # workOrders \/ statusFilter' # statusFilter)
       => cursorDate' = cursorDate]_vars

\* C37: the create panel opens only for a pointer-down recorded on a
\* track, and on the work center recorded at that pointer-down.
C37_CreateTargetsPointerDownRow ==
  [][(panel = Null /\ panel' # Null /\ panel'[1].mode = "create")
       => /\ mouseDownPos # Null
          /\ mouseDownWorkCenterId = Some(panel'[1].workCenterId)]_vars

\* The first half alone: a create panel opens only with a pointer-down
\* recorded on a track.
CreateNeedsPointerDown ==
  [][(panel = Null /\ panel' # Null /\ panel'[1].mode = "create")
       => mouseDownPos # Null /\ mouseDownWorkCenterId # Null]_vars

\* C40: between an expansion and the firing of its timer no second
\* expansion is applied (a scroll, pan or cursor frame handled while
\* isLoadingMore is set leaves the span as it is), and isLoadingMore, once
\* set, is reset.
C40_ExpansionDebounced ==
  /\ [][(isLoadingMore /\ lastEvent'.kind \in {"scroll", "pan", "cursor"})
          => /\ isLoadingMore'
             /\ viewportEnd' - viewportStart' = viewportEnd - viewportStart]_vars
  /\ [][(isLoadingMore /\ ~isLoadingMore') => LoadingTimer]_vars
  /\ (isLoadingMore ~> ~isLoadingMore)

\* A scroll at the edge handled while the reset that a gesture's expansion
\* scheduled is still pending, on a viewport an expansion would widen.
C40_Witness ==
  /\ isLoadingMore
  /\ lastEvent.kind = "scroll"
  /\ lastEvent.geom = "right"
  /\ lastEvent.timer = "gesture"
  /\ viewportEnd - viewportStart >= 2

====
